---- MODULE Spec2Model ----
(***************************************************************************)
(* arrow-avro: the Avro type model (codec.rs) and the columnar row decoder *)
(* (reader/record.rs).  A RecordDecoder is a tree of per-column builders;  *)
(* decode(buf, count) appends rows read from an Avro binary buffer, flush  *)
(* releases the builders as a record batch and resets them.                *)
(*                                                                         *)
(* Option<T> is a sequence of length 0 (None) or 1 (Some).  Byte buffers   *)
(* are sequences of 0..255.  Integers are unbounded except where a width   *)
(* is stated.                                                              *)
(***************************************************************************)
EXTENDS Integers, Sequences, FiniteSets, TLC

VARIABLES
    data_type,  \* the type node given to RecordDecoder::try_new
    created,    \* whether try_new returned Ok
    schema,     \* RecordDecoder.schema: the fields of the Arrow schema
    fields,     \* RecordDecoder.fields: one builder per top-level field
    last,       \* the last call and what it returned
    batch,      \* the batch returned by the last call, when it was a flush
    rowsOk,     \* history: the rows of the decode calls that returned Ok since the last flush
    sumOk,      \* history: the sum of count over those calls
    soiled,     \* history: a decode or flush failed since try_new or the last flush that returned Ok
    asked,      \* history: the rows asked of decode since try_new
    input,      \* the Avro schema given to forward translation
    made,       \* what make_data_type returned for it
    arrow,      \* the columnar field at hand: derived from made, or a consumer's
    reversed,   \* what arrow_field_to_avro_field returned for it
    built       \* what RecordDecoder::try_new returned for the translated type

vars == <<data_type, created, schema, fields, last, batch, rowsOk, sumOk, soiled, asked,
          input, made, arrow, reversed, built>>

None == <<>>
Some(x) == <<x>>
IsSome(o) == Len(o) = 1
Unwrap(o) == o[1]
UnwrapOr(o, dflt) == IF Len(o) = 1 THEN o[1] ELSE dflt

\* The({e(x) : x \in {v}}) is e(x) where x is v, with v written once
The(S) == CHOOSE x \in S : TRUE
Range(s) == {s[i] : i \in 1..Len(s)}
Repeat(x, n) == [i \in 1..n |-> x]

RECURSIVE Sum(_)
Sum(s) == IF s = <<>> THEN 0 ELSE Head(s) + Sum(Tail(s))

RECURSIVE Concat(_)
Concat(ss) == IF ss = <<>> THEN <<>> ELSE Head(ss) \o Concat(Tail(ss))

(***************************************************************************)
(* Model bounds.                                                           *)
(***************************************************************************)
\* rows that may be resident in the builders before a flush is required
MaxRows == 2
\* largest row count of one decode call
MaxCount == 2
\* items per array block / entries per map block in generated input
MaxItems == 2
\* blocks per array value in generated input
MaxBlocks == 2
\* rows asked of decode over the life of one decoder
MaxAsked == 3

(***************************************************************************)
(* Avro binary primitives: the test encoders of record.rs and the cursor.  *)
(***************************************************************************)
ZigZag(value) == IF value >= 0 THEN 2 * value ELSE -2 * value - 1

RECURSIVE Varint(_)
Varint(v) == IF v >= 128 THEN <<(v % 128) + 128>> \o Varint(v \div 128) ELSE <<v>>

encode_avro_int(value) == Varint(ZigZag(value))

encode_avro_long(value) == Varint(ZigZag(value))

encode_avro_bytes(bytes) == encode_avro_long(Len(bytes)) \o bytes

\* A cursor read returns [ok, v, pos]; pos counts the bytes consumed so far.
ReadErr(pos) == [ok |-> FALSE, v |-> 0, pos |-> pos]

UnZigZag(n) == IF n % 2 = 0 THEN n \div 2 ELSE -((n + 1) \div 2)

RECURSIVE read_varint(_, _, _, _)
read_varint(buf, pos, acc, mult) ==
    IF pos >= Len(buf) THEN ReadErr(pos)
    ELSE LET b == buf[pos + 1] IN
         IF b >= 128 THEN read_varint(buf, pos + 1, acc + (b - 128) * mult, mult * 128)
         ELSE [ok |-> TRUE, v |-> acc + b * mult, pos |-> pos + 1]

\* Inputs of the model hold varints of at most two bytes, so the cursor's
\* overflow errors (more than 32 or 64 bits) are out of reach and not modelled.
get_long(buf, pos) ==
    LET r == read_varint(buf, pos, 0, 1) IN
    IF ~r.ok THEN ReadErr(pos)
    ELSE [ok |-> TRUE, v |-> UnZigZag(r.v), pos |-> r.pos]

get_int(buf, pos) ==
    LET r == read_varint(buf, pos, 0, 1) IN
    IF ~r.ok THEN ReadErr(pos)
    ELSE [ok |-> TRUE, v |-> UnZigZag(r.v), pos |-> r.pos]

get_fixed(buf, pos, n) ==
    IF pos + n > Len(buf) THEN ReadErr(pos)
    ELSE [ok |-> TRUE, v |-> SubSeq(buf, pos + 1, pos + n), pos |-> pos + n]

get_bytes(buf, pos) ==
    LET l == get_long(buf, pos) IN
    IF ~l.ok \/ l.v < 0 THEN ReadErr(pos)
    ELSE LET f == get_fixed(buf, l.pos, l.v) IN
         IF f.ok THEN f ELSE ReadErr(pos)

get_bool(buf, pos) ==
    LET f == get_fixed(buf, pos, 1) IN
    IF f.ok THEN [ok |-> TRUE, v |-> f.v[1] # 0, pos |-> f.pos] ELSE ReadErr(pos)

(***************************************************************************)
(* codec.rs: the type model.  A type node (AvroDataType) is                *)
(* [codec, nullability, metadata]; nullability is None, Some("NullFirst")  *)
(* or Some("NullSecond"); metadata is a set of <<key, value>> pairs.       *)
(***************************************************************************)
\* A JSON value (serde_json::Value) is a number or a string.
Num(n) == [j |-> "num", n |-> n]
Str(x) == [j |-> "str", x |-> x]

\* serde_json::Value::as_u64
as_u64(v) == IF v.j = "num" /\ v.n >= 0 THEN Some(v.n) ELSE None

\* serde_json::Value::to_string: the JSON text, a string in its quotes
Value_to_string(v) == IF v.j = "num" THEN ToString(v.n) ELSE "\"" \o v.x \o "\""

AvroDataType_new(codec, nullability, metadata) ==
    [codec |-> codec, nullability |-> nullability, metadata |-> metadata]

from_codec(codec) == AvroDataType_new(codec, None, {})

MetaInsert(md, k, v) == {p \in md : p[1] # k} \cup {<<k, v>>}

Prim(c) == [c |-> c]
Codec_Record(avro_fields) == [c |-> "Record", fields |-> avro_fields]
Codec_Enum(symbols) == [c |-> "Enum", symbols |-> symbols]
Codec_Array(item) == [c |-> "Array", item |-> item]
Codec_Map(value) == [c |-> "Map", value |-> value]
Codec_Fixed(n) == [c |-> "Fixed", size |-> n]
Codec_Decimal(p, s, sz) == [c |-> "Decimal", precision |-> p, scale |-> s, size |-> sz]
Codec_Timestamp(c, is_utc) == [c |-> c, is_utc |-> is_utc]

AvroField(name, dt, default) == [name |-> name, data_type |-> dt, default |-> default]

Field_new(name, dt, nullable) ==
    [name |-> name, data_type |-> dt, nullable |-> nullable, metadata |-> {}]

with_metadata(f, md) == [f EXCEPT !.metadata = md]

with_nullable(f, b) == [f EXCEPT !.nullable = b]

DT(t) == [t |-> t]

DECIMAL128_MAX_PRECISION == 38
DECIMAL128_MAX_SCALE == 38
DECIMAL256_MAX_PRECISION == 76

AsU8(n) == n % 256
AsI8(n) == IF n % 256 >= 128 THEN (n % 256) - 256 ELSE n % 256

\* Dictionary(key type, value type), as arrow_schema declares it.
Dictionary(key_type, value_type) ==
    [t |-> "Dictionary", key |-> key_type, value |-> value_type]

Enum_data_type == Dictionary(DT("Utf8"), DT("Int32"))

Decimal_too_large_for_128(p, s, size) ==
    IF IsSome(size) THEN Unwrap(size) > 16
    ELSE p > DECIMAL128_MAX_PRECISION \/ s < 0 \/ s > DECIMAL128_MAX_SCALE

Timestamp_type(unit, is_utc) ==
    [t |-> "Timestamp", unit |-> unit, tz |-> IF is_utc THEN Some("+00:00") ELSE None]

RECURSIVE Codec_data_type(_)
RECURSIVE AvroField_field(_)

field_with_name(dt, name) ==
    with_metadata(Field_new(name, Codec_data_type(dt.codec), IsSome(dt.nullability)),
                  dt.metadata)

\* AvroField::field without the insertion of the default
AvroField_field_without_default(af) == field_with_name(af.data_type, af.name)

AvroField_field(af) ==
    LET fld == field_with_name(af.data_type, af.name) IN
    IF IsSome(af.default)
    THEN with_metadata(fld, MetaInsert(fld.metadata, "avro.default",
                                       Value_to_string(Unwrap(af.default))))
    ELSE fld

Codec_data_type(codec) ==
    CASE codec.c = "Null" -> DT("Null")
      [] codec.c = "Boolean" -> DT("Boolean")
      [] codec.c = "Int32" -> DT("Int32")
      [] codec.c = "Int64" -> DT("Int64")
      [] codec.c = "Float32" -> DT("Float32")
      [] codec.c = "Float64" -> DT("Float64")
      [] codec.c = "Binary" -> DT("Binary")
      [] codec.c = "String" -> DT("Utf8")
      [] codec.c = "Record" ->
            [t |-> "Struct",
             fields |-> [i \in 1..Len(codec.fields) |-> AvroField_field(codec.fields[i])]]
      [] codec.c = "Enum" -> Enum_data_type
      [] codec.c = "Array" ->
            [t |-> "List",
             field |-> with_metadata(Field_new("item", Codec_data_type(codec.item.codec), TRUE),
                                     codec.item.metadata)]
      [] codec.c = "Map" ->
            [t |-> "Map",
             field |-> Field_new("entries",
                          [t |-> "Struct",
                           fields |-> <<Field_new("key", DT("Utf8"), FALSE),
                                        with_metadata(
                                            Field_new("value",
                                                      Codec_data_type(codec.value.codec), TRUE),
                                            codec.value.metadata)>>],
                          FALSE),
             sorted |-> FALSE]
      [] codec.c = "Fixed" -> [t |-> "FixedSizeBinary", size |-> codec.size]
      [] codec.c = "Decimal" ->
            LET p == AsU8(codec.precision)
                s == AsI8(UnwrapOr(codec.scale, 0))
            IN IF Decimal_too_large_for_128(p, s, codec.size)
               THEN [t |-> "Decimal256", precision |-> p, scale |-> s]
               ELSE [t |-> "Decimal128", precision |-> p, scale |-> s]
      [] codec.c = "Uuid" -> [t |-> "FixedSizeBinary", size |-> 16]
      [] codec.c = "Date32" -> DT("Date32")
      [] codec.c = "TimeMillis" -> DT("Time32Millisecond")
      [] codec.c = "TimeMicros" -> DT("Time64Microsecond")
      [] codec.c = "TimestampMillis" -> Timestamp_type("Millisecond", codec.is_utc)
      [] codec.c = "TimestampMicros" -> Timestamp_type("Microsecond", codec.is_utc)
      [] codec.c = "Duration" -> DT("IntervalMonthDayNano")

(***************************************************************************)
(* crate::schema as codec.rs uses it: the Avro schema that forward         *)
(* translation reads.  A dotted name or namespace is the sequence of its   *)
(* dot-separated segments ("a.b.X" is <<"a", "b", "X">>, "" is <<>>); the   *)
(* name a record, enum or fixed declares is one segment.  An attribute map *)
(* is a set of <<key, JSON value>>.                                        *)
(***************************************************************************)
Attributes(logical_type, additional) ==
    [logical_type |-> logical_type, additional |-> additional]

Primitive(p) == [s |-> "Primitive", p |-> p]
Ref(name) == [s |-> "Ref", name |-> name]
Union(u) == [s |-> "Union", u |-> u]
Schema_Record(name, namespace, fs, attributes) ==
    [s |-> "Record", name |-> name, namespace |-> namespace, fields |-> fs,
     attributes |-> attributes]
Schema_Field(name, type, default) == [name |-> name, type |-> type, default |-> default]
Schema_Enum(name, symbols, attributes) ==
    [s |-> "Enum", name |-> name, symbols |-> symbols, attributes |-> attributes]
Schema_Array(items, attributes) == [s |-> "Array", items |-> items, attributes |-> attributes]
Schema_Map(values, attributes) == [s |-> "Map", values |-> values, attributes |-> attributes]
Schema_Fixed(name, size, attributes) ==
    [s |-> "Fixed", name |-> name, size |-> size, attributes |-> attributes]
Schema_Type(type, attributes) == [s |-> "Type", type |-> type, attributes |-> attributes]

\* additional.get(key)
attr_get(additional, key) ==
    IF \E p \in additional : p[1] = key
    THEN Some((CHOOSE p \in additional : p[1] = key)[2])
    ELSE None

\* additional.get(key).and_then(|v| v.as_u64())
attr_u64(additional, key) ==
    IF IsSome(attr_get(additional, key)) THEN as_u64(Unwrap(attr_get(additional, key)))
    ELSE None

\* Attributes::field_metadata: every additional attribute, its value as JSON text
field_metadata(attributes) == {<<p[1], Value_to_string(p[2])>> : p \in attributes.additional}

\* the inserts of lines 464-466: a key already present takes the new value
metadata_extend(md, attributes) ==
    {p \in md : \A q \in attributes.additional : q[1] # p[1]} \cup field_metadata(attributes)

\* impl From<PrimitiveType> for Codec
Codec_from(p) ==
    CASE p = "Null" -> Prim("Null")
      [] p = "Boolean" -> Prim("Boolean")
      [] p = "Int" -> Prim("Int32")
      [] p = "Long" -> Prim("Int64")
      [] p = "Float" -> Prim("Float32")
      [] p = "Double" -> Prim("Float64")
      [] p = "Bytes" -> Prim("Binary")
      [] p = "String" -> Prim("String")

(***************************************************************************)
(* codec.rs: the Resolver, a map from <<simple name, namespace>> to a type *)
(* node, held as a set of <<key, node>> with one entry per key.            *)
(***************************************************************************)
Resolver_default == {}

resolver_key(name, namespace) == <<name, UnwrapOr(namespace, <<>>)>>

\* a register that stores the node as a nullable one
Resolver_register_nullable(map, name, namespace, dt) ==
    {e \in map : e[1] # resolver_key(name, namespace)}
       \cup {<<resolver_key(name, namespace), [dt EXCEPT !.nullability = Some("NullFirst")]>>}

Resolver_register(map, name, namespace, dt) ==
    {e \in map : e[1] # resolver_key(name, namespace)}
       \cup {<<resolver_key(name, namespace), dt>>}

\* str::rsplit_once('.'): <<namespace, name>> around the last dot
rsplit_once(full_name) ==
    IF Len(full_name) >= 2
    THEN Some(<<SubSeq(full_name, 1, Len(full_name) - 1), full_name[Len(full_name)]>>)
    ELSE None

\* the key a reference is looked up under
resolve_key(full_name, namespace) ==
    IF IsSome(rsplit_once(full_name))
    THEN <<Unwrap(rsplit_once(full_name))[2], Unwrap(rsplit_once(full_name))[1]>>
    ELSE <<full_name[1], UnwrapOr(namespace, <<>>)>>

\* A translation returns [st, dt, resolver]: st is "Ok", "ParseError" or
\* "NotYetImplemented", resolver the map as the call left it.
MR(st, dt, resolver) == [st |-> st, dt |-> dt, resolver |-> resolver]

NoType == [codec |-> [c |-> "Error"], nullability |-> None, metadata |-> {}]

\* a lookup that takes the first type of the name, whatever its namespace
Resolver_resolve_by_name(map, full_name, namespace) ==
    IF \E e \in map : e[1][1] = resolve_key(full_name, namespace)[1]
    THEN MR("Ok", (CHOOSE e \in map : e[1][1] = resolve_key(full_name, namespace)[1])[2], map)
    ELSE MR("ParseError", NoType, map)

Resolver_resolve(map, full_name, namespace) ==
    IF \E e \in map : e[1] = resolve_key(full_name, namespace)
    THEN MR("Ok", (CHOOSE e \in map : e[1] = resolve_key(full_name, namespace))[2], map)
    ELSE MR("ParseError", NoType, map)

\* u.iter().position(|x| x == null), counted from 0
null_idx(u) ==
    IF \E i \in 1..Len(u) : u[i] = Primitive("Null")
    THEN Some((CHOOSE i \in 1..Len(u) :
                  /\ u[i] = Primitive("Null")
                  /\ \A j \in 1..(i - 1) : u[j] # Primitive("Null")) - 1)
    ELSE None

\* the nullability a union gives its other branch, None when it is not supported
union_nullability(u) ==
    IF Len(u) = 2 /\ null_idx(u) = Some(0) THEN Some("NullFirst")
    ELSE IF Len(u) = 2 /\ null_idx(u) = Some(1) THEN Some("NullSecond")
    ELSE None

\* the branch of a supported union that carries the type
union_other(u) == IF null_idx(u) = Some(0) THEN u[2] ELSE u[1]

\* the match on (logical type, codec) of a decorated type: the codec it leaves
\* the match without its arms: every logical type leaves the codec
logical_codec_untouched(attributes, codec) == codec

logical_codec(attributes, codec) ==
    CASE attributes.logical_type = Some("decimal") /\ codec.c = "Fixed" ->
            Codec_Decimal(UnwrapOr(attr_u64(attributes.additional, "precision"), 10),
                          Some(UnwrapOr(attr_u64(attributes.additional, "scale"), 0)),
                          Some(UnwrapOr(attr_u64(attributes.additional, "size"), codec.size)))
      [] attributes.logical_type = Some("decimal") /\ codec.c = "Binary" ->
            Codec_Decimal(UnwrapOr(attr_u64(attributes.additional, "precision"), 10),
                          Some(UnwrapOr(attr_u64(attributes.additional, "scale"), 0)),
                          None)
      [] attributes.logical_type = Some("uuid") /\ codec.c = "String" -> Prim("Uuid")
      [] attributes.logical_type = Some("date") /\ codec.c = "Int32" -> Prim("Date32")
      [] attributes.logical_type = Some("time-millis") /\ codec.c = "Int32" ->
            Prim("TimeMillis")
      [] attributes.logical_type = Some("time-micros") /\ codec.c = "Int64" ->
            Prim("TimeMicros")
      [] attributes.logical_type = Some("timestamp-millis") /\ codec.c = "Int64" ->
            Codec_Timestamp("TimestampMillis", TRUE)
      [] attributes.logical_type = Some("timestamp-micros") /\ codec.c = "Int64" ->
            Codec_Timestamp("TimestampMicros", TRUE)
      [] attributes.logical_type = Some("local-timestamp-millis") /\ codec.c = "Int64" ->
            Codec_Timestamp("TimestampMillis", FALSE)
      [] attributes.logical_type = Some("local-timestamp-micros") /\ codec.c = "Int64" ->
            Codec_Timestamp("TimestampMicros", FALSE)
      [] attributes.logical_type = Some("duration") /\ codec = Codec_Fixed(12) ->
            Prim("Duration")
      [] OTHER -> codec

\* whether one of the arms that name a logical type and a codec was taken
logical_matched(attributes, codec) ==
    \/ attributes.logical_type = Some("decimal") /\ codec.c \in {"Fixed", "Binary"}
    \/ attributes.logical_type = Some("uuid") /\ codec.c = "String"
    \/ attributes.logical_type \in {Some("date"), Some("time-millis")} /\ codec.c = "Int32"
    \/ /\ attributes.logical_type \in
             {Some("time-micros"), Some("timestamp-millis"), Some("timestamp-micros"),
              Some("local-timestamp-millis"), Some("local-timestamp-micros")}
       /\ codec.c = "Int64"
    \/ attributes.logical_type = Some("duration") /\ codec = Codec_Fixed(12)

\* the metadata the match leaves: the arm (Some(other), _) stores the string
logical_metadata(attributes, dt) ==
    IF IsSome(attributes.logical_type) /\ ~logical_matched(attributes, dt.codec)
    THEN MetaInsert(dt.metadata, "logicalType", Unwrap(attributes.logical_type))
    ELSE dt.metadata

\* a decorated type over the node dt of its underlying type name
decorate(attributes, dt) ==
    [dt EXCEPT !.codec = logical_codec(attributes, dt.codec),
               !.metadata = metadata_extend(logical_metadata(attributes, dt), attributes)]

\* a named fixed whose logical type is never looked at
fixed_data_type_plain(fx) ==
    Some(AvroDataType_new(Codec_Fixed(fx.size), None, field_metadata(fx.attributes)))

\* a named fixed: Err when a decimal has no precision
fixed_data_type(fx) ==
    IF fx.attributes.logical_type = Some("decimal")
    THEN IF IsSome(attr_u64(fx.attributes.additional, "precision"))
         THEN Some(AvroDataType_new(
                      Codec_Decimal(Unwrap(attr_u64(fx.attributes.additional, "precision")),
                                    Some(UnwrapOr(attr_u64(fx.attributes.additional, "scale"), 0)),
                                    Some(fx.size)),
                      None, field_metadata(fx.attributes)))
         ELSE None
    ELSE Some(AvroDataType_new(Codec_Fixed(fx.size), None, field_metadata(fx.attributes)))

RECURSIVE make_data_type(_, _, _)
RECURSIVE make_fields(_, _, _, _, _)

\* the fields of a record from the i-th on, stopping at the first error:
\* [st, fields, resolver]
make_fields(fs, i, ns, resolver, acc) ==
    IF i > Len(fs) THEN [st |-> "Ok", fields |-> acc, resolver |-> resolver]
    ELSE The({ IF r.st # "Ok" THEN [st |-> r.st, fields |-> acc, resolver |-> r.resolver]
               ELSE make_fields(fs, i + 1, ns, r.resolver,
                                Append(acc, AvroField(fs[i].name, r.dt, fs[i].default))) :
               r \in {make_data_type(fs[i].type, ns, resolver)} })

\* the namespace the fields of a record inherit
\* a record that hands its fields the namespace it inherited, declared or not
record_namespace_inherited(r, namespace) == namespace

record_namespace(r, namespace) == IF IsSome(r.namespace) THEN r.namespace ELSE namespace

\* a named type as it is returned and registered
registered(name, namespace, dt, resolver) ==
    MR("Ok", dt, Resolver_register(resolver, name, namespace, dt))

make_data_type(sch, namespace, resolver) ==
    CASE sch.s = "Primitive" -> MR("Ok", from_codec(Codec_from(sch.p)), resolver)
      [] sch.s = "Ref" -> Resolver_resolve(resolver, sch.name, namespace)
      [] sch.s = "Union" ->
            IF IsSome(union_nullability(sch.u))
            THEN The({ IF r.st # "Ok" THEN r
                       ELSE MR("Ok", [r.dt EXCEPT !.nullability = union_nullability(sch.u)],
                               r.resolver) :
                       r \in {make_data_type(union_other(sch.u), namespace, resolver)} })
            ELSE MR("NotYetImplemented", NoType, resolver)
      [] sch.s = "Record" ->
            The({ IF r.st # "Ok" THEN MR(r.st, NoType, r.resolver)
                  ELSE registered(sch.name, record_namespace(sch, namespace),
                                  AvroDataType_new(Codec_Record(r.fields), None,
                                                   field_metadata(sch.attributes)),
                                  r.resolver) :
                  r \in {make_fields(sch.fields, 1, record_namespace(sch, namespace),
                                     resolver, <<>>)} })
      [] sch.s = "Enum" ->
            registered(sch.name, namespace,
                       AvroDataType_new(Codec_Enum(sch.symbols), None,
                                        field_metadata(sch.attributes)),
                       resolver)
      [] sch.s = "Array" ->
            The({ IF r.st # "Ok" THEN r
                  ELSE MR("Ok", AvroDataType_new(Codec_Array(r.dt), None,
                                                 field_metadata(sch.attributes)),
                          r.resolver) :
                  r \in {make_data_type(sch.items, namespace, resolver)} })
      [] sch.s = "Map" ->
            The({ IF r.st # "Ok" THEN r
                  ELSE MR("Ok", AvroDataType_new(Codec_Map(r.dt), None,
                                                 field_metadata(sch.attributes)),
                          r.resolver) :
                  r \in {make_data_type(sch.values, namespace, resolver)} })
      [] sch.s = "Fixed" ->
            IF IsSome(fixed_data_type(sch))
            THEN registered(sch.name, namespace, Unwrap(fixed_data_type(sch)), resolver)
            ELSE MR("ParseError", NoType, resolver)
      [] sch.s = "Type" ->
            The({ IF r.st # "Ok" THEN r
                  ELSE MR("Ok", decorate(sch.attributes, r.dt), r.resolver) :
                  r \in {make_data_type(sch.type, namespace, resolver)} })

(***************************************************************************)
(* codec.rs: reverse translation, from a columnar field to a named field.  *)
(***************************************************************************)
\* is_nullable().then_some(Nullability::NullFirst)
\* NullFirst whether the field is nullable or not
then_some_NullFirst_always(nullable) == Some("NullFirst")

then_some_NullFirst(nullable) == IF nullable THEN Some("NullFirst") ELSE None

RECURSIVE arrow_type_to_codec(_)
RECURSIVE arrow_field_to_avro_field(_)

\* the node of a list item or a map value
child_data_type(child_field) ==
    AvroDataType_new(arrow_type_to_codec(child_field.data_type),
                     then_some_NullFirst(child_field.nullable),
                     child_field.metadata)

arrow_field_to_avro_field(field) ==
    AvroField(field.name,
              AvroDataType_new(arrow_type_to_codec(field.data_type),
                               then_some_NullFirst(field.nullable),
                               field.metadata),
              None)

arrow_type_to_codec(dt) ==
    CASE dt.t = "Null" -> Prim("Null")
      [] dt.t = "Boolean" -> Prim("Boolean")
      [] dt.t \in {"Int8", "Int16", "Int32"} -> Prim("Int32")
      [] dt.t = "Int64" -> Prim("Int64")
      [] dt.t = "Float32" -> Prim("Float32")
      [] dt.t = "Float64" -> Prim("Float64")
      [] dt.t \in {"Binary", "LargeBinary"} -> Prim("Binary")
      [] dt.t = "Utf8" -> Prim("String")
      [] dt.t = "Struct" ->
            Codec_Record([i \in 1..Len(dt.fields) |-> arrow_field_to_avro_field(dt.fields[i])])
      [] dt.t = "Dictionary" ->
            IF dt.key = DT("Utf8") THEN Codec_Enum(<<>>) ELSE Prim("String")
      [] dt.t = "List" -> Codec_Array(child_data_type(dt.field))
      [] dt.t = "Map" ->
            IF dt.field.data_type.t = "Struct"
            THEN Codec_Map(child_data_type(dt.field.data_type.fields[2]))
            ELSE Codec_Map(from_codec(Prim("String")))
      [] dt.t = "FixedSizeBinary" -> Codec_Fixed(dt.size)
      [] dt.t = "Decimal128" -> Codec_Decimal(dt.precision, Some(dt.scale), Some(16))
      [] dt.t = "Decimal256" -> Codec_Decimal(dt.precision, Some(dt.scale), Some(32))
      [] dt.t = "Date32" -> Prim("Date32")
      [] dt.t = "Time32Millisecond" -> Prim("TimeMillis")
      [] dt.t = "Time64Microsecond" -> Prim("TimeMicros")
      [] dt.t = "Timestamp" /\ dt.unit = "Millisecond" /\ dt.tz = Some("UTC") ->
            Codec_Timestamp("TimestampMillis", TRUE)
      [] dt.t = "Timestamp" /\ dt.unit = "Millisecond" /\ dt.tz = None ->
            Codec_Timestamp("TimestampMillis", FALSE)
      [] dt.t = "Timestamp" /\ dt.unit = "Microsecond" /\ dt.tz = Some("UTC") ->
            Codec_Timestamp("TimestampMicros", TRUE)
      [] dt.t = "Timestamp" /\ dt.unit = "Microsecond" /\ dt.tz = None ->
            Codec_Timestamp("TimestampMicros", FALSE)
      [] dt.t = "IntervalMonthDayNano" -> Prim("Duration")
      [] OTHER -> Prim("String")

(***************************************************************************)
(* reader/record.rs: the column builders.  A Decoder is a record tagged by *)
(* k.  An OffsetBufferBuilder is its sequence of offsets, which starts as  *)
(* <<0>>; a NullBufferBuilder is its sequence of validity bits.            *)
(***************************************************************************)
OffsetBufferBuilder_new == <<0>>

last_offset(off) == off[Len(off)]

push_length(off, length) == Append(off, last_offset(off) + length)

vec_push(v, x) == Append(v, x)

nulls_append(nulls, valid) == Append(nulls, valid)

Ok(d) == [ok |-> TRUE, d |-> d]
Err == [ok |-> FALSE, d |-> [k |-> "Error"]]

VecKinds == {"Int32", "Int64", "Float32", "Float64", "Date32", "TimeMillis", "TimeMicros"}
BytesKinds == {"Binary", "String"}
TimestampKinds == {"TimestampMillis", "TimestampMicros"}

\* arrow_schema's check of a decimal's precision and scale for a storage width
validate_decimal_precision_and_scale(p, s, max) ==
    /\ p # 0
    /\ p <= max
    /\ s <= max
    /\ ~(s > 0 /\ s > p)

DecimalBuilder_new(precision, scale, size) ==
    LET p == AsU8(precision)
        s == AsI8(UnwrapOr(scale, 0))
        b128 == IF validate_decimal_precision_and_scale(p, s, DECIMAL128_MAX_PRECISION)
                THEN Ok([w |-> "Decimal128", values |-> <<>>]) ELSE Err
        b256 == IF validate_decimal_precision_and_scale(p, s, DECIMAL256_MAX_PRECISION)
                THEN Ok([w |-> "Decimal256", values |-> <<>>]) ELSE Err
    IN IF IsSome(size)
       THEN IF Unwrap(size) > 16 /\ Unwrap(size) <= 32 THEN b256
            ELSE IF Unwrap(size) <= 16 THEN b128
            ELSE Err
       ELSE IF precision <= DECIMAL128_MAX_PRECISION THEN b128
            ELSE IF precision <= DECIMAL256_MAX_PRECISION THEN b256
            ELSE Err

\* the wrap of lines 227-235: a node that carries a nullability gets a null mask
wrap_nullable(dt, decoder) ==
    IF IsSome(dt.nullability)
    THEN [k |-> "Nullable", nb |-> Unwrap(dt.nullability), nulls |-> <<>>, child |-> decoder]
    ELSE decoder

RECURSIVE Decoder_try_new(_)
Decoder_try_new(dt) ==
    LET c == dt.codec IN
    The({ IF decoder.ok THEN Ok(wrap_nullable(dt, decoder.d)) ELSE Err :
          decoder \in {
          CASE c.c = "Null" -> Ok([k |-> "Null", n |-> 0])
            [] c.c = "Boolean" -> Ok([k |-> "Boolean", values |-> <<>>])
            [] c.c \in VecKinds -> Ok([k |-> c.c, values |-> <<>>])
            [] c.c \in BytesKinds ->
                  Ok([k |-> c.c, off |-> OffsetBufferBuilder_new, data |-> <<>>])
            [] c.c = "Record" ->
                  The({ IF \E i \in 1..Len(ds) : ~ds[i].ok THEN Err
                        ELSE Ok([k |-> "Record",
                                 fields |-> [i \in 1..Len(c.fields) |->
                                                AvroField_field(c.fields[i])],
                                 children |-> [i \in 1..Len(ds) |-> ds[i].d]]) :
                        ds \in {[i \in 1..Len(c.fields) |->
                                    Decoder_try_new(c.fields[i].data_type)]} })
            [] c.c = "Enum" -> Ok([k |-> "Enum", symbols |-> c.symbols, indices |-> <<>>])
            [] c.c = "Array" ->
                  The({ IF ~item.ok THEN Err
                        ELSE Ok([k |-> "List",
                                 field |-> with_nullable(field_with_name(c.item, "item"), TRUE),
                                 off |-> OffsetBufferBuilder_new,
                                 child |-> item.d]) :
                        item \in {Decoder_try_new(c.item)} })
            [] c.c = "Map" ->
                  The({ IF ~val.ok THEN Err
                        ELSE Ok([k |-> "Map",
                                 field |-> Field_new("entries",
                                             [t |-> "Struct",
                                              fields |-> <<Field_new("key", DT("Utf8"), FALSE),
                                                           with_nullable(
                                                              field_with_name(c.value, "value"),
                                                              TRUE)>>],
                                             FALSE),
                                 key_off |-> OffsetBufferBuilder_new,
                                 map_off |-> OffsetBufferBuilder_new,
                                 key_data |-> <<>>,
                                 val_decoder |-> val.d,
                                 entry_count |-> 0]) :
                        val \in {Decoder_try_new(c.value)} })
            [] c.c = "Fixed" -> Ok([k |-> "Fixed", fsize |-> c.size, buf |-> <<>>])
            [] c.c = "Decimal" ->
                  LET b == DecimalBuilder_new(c.precision, c.scale, c.size) IN
                  IF ~b.ok THEN Err
                  ELSE Ok([k |-> "Decimal", precision |-> c.precision, scale |-> c.scale,
                           size |-> c.size, builder |-> b.d])
            [] c.c = "Uuid" -> Ok([k |-> "Fixed", fsize |-> 16, buf |-> <<>>])
            [] c.c \in TimestampKinds ->
                  Ok([k |-> c.c, is_utc |-> c.is_utc, values |-> <<>>])
            [] c.c = "Duration" -> Ok([k |-> "Interval", values |-> <<>>]) } })

\* RecordDecoder::try_new: [ok, schema, fields]
RecordDecoder_accepts(decoder) == decoder.k = "Record"

RecordDecoder_try_new(dt) ==
    The({ IF r.ok /\ RecordDecoder_accepts(r.d)
          THEN [ok |-> TRUE, schema |-> r.d.fields, fields |-> r.d.children]
          ELSE [ok |-> FALSE, schema |-> <<>>, fields |-> <<>>] :
          r \in {Decoder_try_new(dt)} })

\* A 128- or 256-bit integer is kept as its shortest big-endian two's-complement
\* form (zero is the empty sequence), which names the integer uniquely.
RECURSIVE from_be_bytes(_)
from_be_bytes(bytes) ==
    IF Len(bytes) = 0 THEN <<>>
    ELSE IF bytes[1] = 0 /\ (Len(bytes) = 1 \/ bytes[2] < 128) THEN from_be_bytes(Tail(bytes))
    ELSE IF bytes[1] = 255 /\ Len(bytes) > 1 /\ bytes[2] >= 128 THEN from_be_bytes(Tail(bytes))
    ELSE bytes

DecimalBuilder_append_null(b) ==
    [b EXCEPT !.values = vec_push(@, from_be_bytes(Repeat(0, IF b.w = "Decimal128" THEN 16 ELSE 32)))]

IntervalZero ==
    [months |-> 0, days |-> 0, nanoseconds |-> [millis |-> 0, times |-> "1_000_000"]]

RECURSIVE append_null(_)
append_null(d) ==
    CASE d.k = "Null" -> [d EXCEPT !.n = @ + 1]
      [] d.k = "Boolean" -> [d EXCEPT !.values = vec_push(@, FALSE)]
      [] d.k \in {"Int32", "Date32", "TimeMillis", "Int64", "TimeMicros"} \cup TimestampKinds ->
            [d EXCEPT !.values = vec_push(@, 0)]
      [] d.k = "Float32" -> [d EXCEPT !.values = vec_push(@, Repeat(0, 4))]
      [] d.k = "Float64" -> [d EXCEPT !.values = vec_push(@, Repeat(0, 8))]
      [] d.k \in BytesKinds -> [d EXCEPT !.off = push_length(@, 0)]
      [] d.k = "Record" ->
            [d EXCEPT !.children = [i \in 1..Len(@) |-> append_null(@[i])]]
      [] d.k = "Enum" -> [d EXCEPT !.indices = vec_push(@, 0)]
      [] d.k = "List" ->
            [d EXCEPT !.off = push_length(@, 0), !.child = append_null(@)]
      [] d.k = "Map" ->
            [d EXCEPT !.key_off = push_length(@, 0),
                      !.map_off = push_length(@, d.entry_count)]
      [] d.k = "Fixed" -> [d EXCEPT !.buf = @ \o Repeat(0, d.fsize)]
      [] d.k = "Decimal" -> [d EXCEPT !.builder = DecimalBuilder_append_null(@)]
      [] d.k = "Interval" -> [d EXCEPT !.values = vec_push(@, IntervalZero)]
      [] d.k = "Nullable" -> d

(***************************************************************************)
(* Decoder::decode: one row.  The result is [st, d, pos]: st is "Ok",      *)
(* "Err" or "Panic", d the builder as the call leaves it (an error keeps   *)
(* what was appended before it) and pos the cursor position.               *)
(***************************************************************************)
Res(st, d, pos) == [st |-> st, d |-> d, pos |-> pos]

\* which union branch carries the value
\* the value branch taken to be 2 whatever the order of the union
present_branch_two(nb) == 2

present_branch(nb) == IF nb = "NullFirst" THEN 1 ELSE 0

null_branch_first_only(nb) == 0

null_branch(nb) == IF nb = "NullFirst" THEN 0 ELSE 1

\* read_array_blocks: the items of a block with count n, and whether a block
\* size follows the count
block_item_count(n) == IF n < 0 THEN -n ELSE n

block_has_size_never(n) == FALSE

block_has_size(n) == n < 0

\* sign_extend: None stands for the failed subtraction target_len - raw.len()
sign_extend_zero_pad(raw, target_len) ==
    IF Len(raw) > target_len THEN None ELSE Some(Repeat(0, target_len - Len(raw)) \o raw)

sign_extend(raw, target_len) ==
    IF Len(raw) = 0 THEN Some(Repeat(0, target_len))
    ELSE IF Len(raw) > target_len THEN None
    ELSE IF raw[1] >= 128 THEN Some(Repeat(255, target_len - Len(raw)) \o raw)
    ELSE Some(Repeat(0, target_len - Len(raw)) \o raw)

\* sign_extend_to_16 / sign_extend_to_32: [st, v]
sign_extend_to(raw, n) ==
    LET extended == sign_extend(raw, n) IN
    IF ~IsSome(extended) THEN [st |-> "Panic", v |-> <<>>]
    ELSE IF Len(Unwrap(extended)) # n THEN [st |-> "Err", v |-> <<>>]
    ELSE [st |-> "Ok", v |-> Unwrap(extended)]

DecimalBuilder_append_bytes(b, raw) ==
    LET padded == sign_extend_to(raw, IF b.w = "Decimal128" THEN 16 ELSE 32) IN
    IF padded.st = "Ok"
    THEN [st |-> "Ok", b |-> [b EXCEPT !.values = vec_push(@, from_be_bytes(padded.v))]]
    ELSE [st |-> padded.st, b |-> b]

\* i32::from_le_bytes
i32_from_le_bytes(raw) ==
    raw[1] + 256 * raw[2] + 65536 * raw[3]
      + 16777216 * (IF raw[4] >= 128 THEN raw[4] - 256 ELSE raw[4])

RECURSIVE Decoder_decode(_, _, _)
RECURSIVE decode_children(_, _, _, _)
RECURSIVE decode_items(_, _, _, _)
RECURSIVE read_array_blocks(_, _, _, _)
RECURSIVE decode_entries(_, _, _, _)

\* children i.. of a record, in declared order, stopping at the first error
decode_children(children, i, buf, pos) ==
    IF i > Len(children) THEN Res("Ok", children, pos)
    ELSE The({ IF r.st # "Ok" THEN Res(r.st, [children EXCEPT ![i] = r.d], r.pos)
               ELSE decode_children([children EXCEPT ![i] = r.d], i + 1, buf, r.pos) :
               r \in {Decoder_decode(children[i], buf, pos)} })

\* item_count calls of decode_item
decode_items(child, n, buf, pos) ==
    IF n = 0 THEN Res("Ok", child, pos)
    ELSE The({ IF r.st # "Ok" THEN r ELSE decode_items(r.d, n - 1, buf, r.pos) :
               r \in {Decoder_decode(child, buf, pos)} })

\* the block size read behind a negative block count bc, or nothing read
read_block_size(bc, buf) ==
    IF block_has_size(bc.v) THEN get_long(buf, bc.pos)
    ELSE [ok |-> TRUE, v |-> 0, pos |-> bc.pos]

\* [st, d (the child), pos, total]
read_array_blocks(child, buf, pos, total_items) ==
    The({ IF ~bc.ok THEN [st |-> "Err", d |-> child, pos |-> pos, total |-> total_items]
          ELSE IF bc.v = 0
               THEN [st |-> "Ok", d |-> child, pos |-> bc.pos, total |-> total_items]
          ELSE IF ~read_block_size(bc, buf).ok
               THEN [st |-> "Err", d |-> child, pos |-> bc.pos, total |-> total_items]
          ELSE The({ IF r.st # "Ok"
                     THEN [st |-> r.st, d |-> r.d, pos |-> r.pos, total |-> total_items]
                     ELSE read_array_blocks(r.d, buf, r.pos,
                                            total_items + block_item_count(bc.v)) :
                     r \in {decode_items(child, block_item_count(bc.v), buf,
                                         read_block_size(bc, buf).pos)} }) :
          bc \in {get_long(buf, pos)} })

\* the Map builder m with the key kb appended
push_key(m, kb) ==
    [m EXCEPT !.key_off = push_length(@, Len(kb.v)), !.key_data = @ \o kb.v]

\* n calls of the map's decode_entry closure on the Map builder m
decode_entries(m, n, buf, pos) ==
    IF n = 0 THEN Res("Ok", m, pos)
    ELSE The({ IF ~kb.ok THEN Res("Err", m, pos)
               ELSE The({ IF r.st # "Ok"
                          THEN Res(r.st, [push_key(m, kb) EXCEPT !.val_decoder = r.d], r.pos)
                          ELSE decode_entries([push_key(m, kb) EXCEPT !.val_decoder = r.d],
                                              n - 1, buf, r.pos) :
                          r \in {Decoder_decode(m.val_decoder, buf, kb.pos)} }) :
               kb \in {get_bytes(buf, pos)} })

\* read_map_blocks reading a count again after the entries of a block
read_map_blocks_and_end(m, buf, pos) ==
    The({ IF ~bc.ok THEN [st |-> "Err", d |-> m, pos |-> pos, n |-> 0]
          ELSE IF bc.v <= 0 THEN [st |-> "Ok", d |-> m, pos |-> bc.pos, n |-> 0]
          ELSE The({ IF r.st # "Ok" THEN [st |-> r.st, d |-> r.d, pos |-> r.pos, n |-> bc.v]
                     ELSE The({ [st |-> IF z.ok THEN "Ok" ELSE "Err", d |-> r.d,
                                 pos |-> z.pos, n |-> bc.v] :
                                z \in {get_long(buf, r.pos)} }) :
                     r \in {decode_entries(m, bc.v, buf, bc.pos)} }) :
          bc \in {get_long(buf, pos)} })

\* [st, d (the Map builder), pos, n]
read_map_blocks(m, buf, pos) ==
    The({ IF ~bc.ok THEN [st |-> "Err", d |-> m, pos |-> pos, n |-> 0]
          ELSE IF bc.v <= 0 THEN [st |-> "Ok", d |-> m, pos |-> bc.pos, n |-> 0]
          ELSE The({ [st |-> r.st, d |-> r.d, pos |-> r.pos, n |-> bc.v] :
                     r \in {decode_entries(m, bc.v, buf, bc.pos)} }) :
          bc \in {get_long(buf, pos)} })

\* the offset the Map builder records for a row
map_row_offset(map_off, entry_count) == push_length(map_off, entry_count)

\* a scalar read pushed onto a vector
push_read(d, r) ==
    IF r.ok THEN Res("Ok", [d EXCEPT !.values = vec_push(@, r.v)], r.pos)
    ELSE Res("Err", d, r.pos)

\* the bytes read pushed onto a Binary or String builder
push_bytes(d, r, pos) ==
    IF ~r.ok THEN Res("Err", d, pos)
    ELSE Res("Ok", [d EXCEPT !.off = push_length(@, Len(r.v)), !.data = @ \o r.v], r.pos)

\* a variant of push_index which refuses an index outside the symbols
push_index_in_range(d, r, pos) ==
    IF ~r.ok \/ r.v < 0 \/ r.v >= Len(d.symbols) THEN Res("Err", d, pos)
    ELSE Res("Ok", [d EXCEPT !.indices = vec_push(@, r.v)], r.pos)

push_index(d, r, pos) ==
    IF ~r.ok THEN Res("Err", d, pos)
    ELSE Res("Ok", [d EXCEPT !.indices = vec_push(@, r.v)], r.pos)

\* a variant of push_fixed which keeps one byte more than the row has
push_fixed_and_pad(d, r, pos) ==
    IF ~r.ok THEN Res("Err", d, pos) ELSE Res("Ok", [d EXCEPT !.buf = @ \o r.v \o <<0>>], r.pos)

push_fixed(d, r, pos) ==
    IF ~r.ok THEN Res("Err", d, pos) ELSE Res("Ok", [d EXCEPT !.buf = @ \o r.v], r.pos)

push_decimal(d, r, pos) ==
    IF ~r.ok THEN Res("Err", d, pos)
    ELSE The({ Res(a.st, [d EXCEPT !.builder = a.b], r.pos) :
               a \in {DecimalBuilder_append_bytes(d.builder, r.v)} })

push_interval(d, r, pos) ==
    IF ~r.ok THEN Res("Err", d, pos)
    ELSE Res("Ok",
             [d EXCEPT !.values = vec_push(@,
                 [months |-> i32_from_le_bytes(SubSeq(r.v, 1, 4)),
                  days |-> i32_from_le_bytes(SubSeq(r.v, 5, 8)),
                  nanoseconds |-> [millis |-> i32_from_le_bytes(SubSeq(r.v, 9, 12)),
                                   times |-> "1_000_000"]])],
             r.pos)

Decoder_decode(d, buf, pos) ==
    CASE d.k = "Null" -> Res("Ok", [d EXCEPT !.n = @ + 1], pos)
      [] d.k = "Boolean" -> push_read(d, get_bool(buf, pos))
      [] d.k \in {"Int32", "Date32", "TimeMillis"} -> push_read(d, get_int(buf, pos))
      [] d.k \in {"Int64", "TimeMicros"} \cup TimestampKinds -> push_read(d, get_long(buf, pos))
      [] d.k = "Float32" -> push_read(d, get_fixed(buf, pos, 4))
      [] d.k = "Float64" -> push_read(d, get_fixed(buf, pos, 8))
      [] d.k \in BytesKinds -> push_bytes(d, get_bytes(buf, pos), pos)
      [] d.k = "Record" ->
            The({ Res(r.st, [d EXCEPT !.children = r.d], r.pos) :
                  r \in {decode_children(d.children, 1, buf, pos)} })
      [] d.k = "Enum" -> push_index(d, get_int(buf, pos), pos)
      [] d.k = "List" ->
            The({ IF r.st # "Ok" THEN Res(r.st, [d EXCEPT !.child = r.d], r.pos)
                  ELSE Res("Ok", [d EXCEPT !.child = r.d, !.off = push_length(@, r.total)],
                           r.pos) :
                  r \in {read_array_blocks(d.child, buf, pos, 0)} })
      [] d.k = "Map" ->
            The({ IF r.st # "Ok" THEN Res(r.st, r.d, r.pos)
                  ELSE Res("Ok",
                           [r.d EXCEPT !.entry_count = r.d.entry_count + r.n,
                                       !.map_off = map_row_offset(@, r.d.entry_count + r.n)],
                           r.pos) :
                  r \in {read_map_blocks(d, buf, pos)} })
      [] d.k = "Nullable" ->
            The({ IF ~b.ok THEN Res("Err", d, pos)
                  ELSE IF b.v = null_branch(d.nb)
                       THEN Res("Ok", [d EXCEPT !.nulls = nulls_append(@, FALSE),
                                                !.child = append_null(@)], b.pos)
                  ELSE IF b.v = present_branch(d.nb)
                       THEN The({ Res(r.st, [d EXCEPT !.nulls = nulls_append(@, TRUE),
                                                      !.child = r.d], r.pos) :
                                  r \in {Decoder_decode(d.child, buf, b.pos)} })
                  ELSE Res("Err", d, b.pos) :
                  b \in {get_int(buf, pos)} })
      [] d.k = "Fixed" -> push_fixed(d, get_fixed(buf, pos, d.fsize), pos)
      [] d.k = "Decimal" ->
            push_decimal(d, IF IsSome(d.size) THEN get_fixed(buf, pos, Unwrap(d.size))
                            ELSE get_bytes(buf, pos), pos)
      [] d.k = "Interval" -> push_interval(d, get_fixed(buf, pos, 12), pos)

\* RecordDecoder::decode(buf, count): [st, fields, n]
RECURSIVE decode_rows(_, _, _, _)
decode_rows(fs, count, buf, pos) ==
    IF count = 0 THEN Res("Ok", fs, pos)
    ELSE The({ IF r.st # "Ok" THEN r ELSE decode_rows(r.d, count - 1, buf, r.pos) :
               r \in {decode_children(fs, 1, buf, pos)} })

RecordDecoder_decode_one_row(fs, buf, count) ==
    decode_rows(fs, IF count = 0 THEN 0 ELSE 1, buf, 0)

RecordDecoder_decode(fs, buf, count) == decode_rows(fs, count, buf, 0)

(***************************************************************************)
(* Arrays.  An array is [data_type, len, nulls, values, offsets, children] *)
(* with nulls an Option of validity bits.  The constructors of arrow_array *)
(* check what they are given; a failed check is "Err" for a try_new that   *)
(* the caller propagates and "Panic" for a new.                            *)
(***************************************************************************)
Array(dt, len, nulls, values, offsets, children) ==
    [data_type |-> dt, len |-> len, nulls |-> nulls, values |-> values,
     offsets |-> offsets, children |-> children]

NoArray == Array(DT("none"), 0, None, <<>>, <<>>, <<>>)

is_valid(arr, i) == IF IsSome(arr.nulls) THEN Unwrap(arr.nulls)[i] ELSE TRUE

null_count(arr) ==
    IF IsSome(arr.nulls)
    THEN Cardinality({i \in 1..Len(Unwrap(arr.nulls)) : ~Unwrap(arr.nulls)[i]})
    ELSE 0

nulls_fit(nulls, len) == ~IsSome(nulls) \/ Len(Unwrap(nulls)) = len

\* NullBufferBuilder::finish: no mask unless a null was appended
NullBufferBuilder_finish(nulls) ==
    IF \A i \in 1..Len(nulls) : nulls[i] THEN None ELSE Some(nulls)

AR(st, arr) == [st |-> st, arr |-> arr]

\* PrimitiveArray::new, BooleanArray::new
PrimitiveArray_new(dt, values, nulls) ==
    IF nulls_fit(nulls, Len(values))
    THEN AR("Ok", Array(dt, Len(values), nulls, values, <<>>, <<>>))
    ELSE AR("Panic", NoArray)

\* the strings of the model are ASCII
is_utf8(data) == \A i \in 1..Len(data) : data[i] < 128

\* GenericByteArray::new
ByteArray_new(dt, offsets, data, nulls) ==
    IF /\ nulls_fit(nulls, Len(offsets) - 1)
       /\ last_offset(offsets) <= Len(data)
       /\ (dt.t = "Utf8" => is_utf8(data))
    THEN AR("Ok", Array(dt, Len(offsets) - 1, nulls, data, offsets, <<>>))
    ELSE AR("Panic", NoArray)

Struct_type(fs) == [t |-> "Struct", fields |-> fs]

\* StructArray::new
StructArray_new(fs, arrays, nulls) ==
    LET len == IF Len(arrays) = 0 THEN 0 ELSE arrays[1].len IN
    IF /\ Len(fs) = Len(arrays)
       /\ nulls_fit(nulls, len)
       /\ \A i \in 1..Len(arrays) :
             /\ arrays[i].data_type = fs[i].data_type
             /\ arrays[i].len = len
             /\ fs[i].nullable \/ \A j \in 1..len :
                   is_valid(arrays[i], j) \/ (IsSome(nulls) /\ ~Unwrap(nulls)[j])
    THEN AR("Ok", Array(Struct_type(fs), len, nulls, <<>>, <<>>, arrays))
    ELSE AR("Panic", NoArray)

\* ListArray::new
ListArray_new(field, offsets, values, nulls) ==
    IF /\ nulls_fit(nulls, Len(offsets) - 1)
       /\ last_offset(offsets) <= values.len
       /\ field.nullable \/ null_count(values) = 0
       /\ field.data_type = values.data_type
    THEN AR("Ok", Array([t |-> "List", field |-> field], Len(offsets) - 1, nulls,
                        <<>>, offsets, <<values>>))
    ELSE AR("Panic", NoArray)

\* MapArray::new
MapArray_new(field, offsets, entries, nulls, ordered) ==
    IF /\ nulls_fit(nulls, Len(offsets) - 1)
       /\ last_offset(offsets) <= entries.len
       /\ null_count(entries) = 0
       /\ field.data_type = entries.data_type
       /\ Len(entries.children) = 2
    THEN AR("Ok", Array([t |-> "Map", field |-> field, sorted |-> ordered],
                        Len(offsets) - 1, nulls, <<>>, offsets, <<entries>>))
    ELSE AR("Panic", NoArray)

\* FixedSizeBinaryArray::try_new
FixedSizeBinaryArray_try_new(size, buf, nulls) ==
    IF size < 0 THEN AR("Err", NoArray)
    ELSE LET len == IF size = 0 THEN 0 ELSE Len(buf) \div size IN
         IF (size # 0 /\ Len(buf) % size # 0) \/ ~nulls_fit(nulls, len) THEN AR("Err", NoArray)
         ELSE AR("Ok", Array([t |-> "FixedSizeBinary", size |-> size], len, nulls,
                             buf, <<>>, <<>>))

\* StringArray::from_iter_values over the symbols
symbols_array(symbols) ==
    Array(DT("Utf8"), Len(symbols), None, symbols, <<>>, <<>>)

\* DictionaryArray::<Int32Type>::try_new
DictionaryArray_try_new(keys, values) ==
    IF \E i \in 1..keys.len :
          is_valid(keys, i) /\ (keys.values[i] < 0 \/ keys.values[i] >= values.len)
    THEN AR("Err", NoArray)
    ELSE AR("Ok", Array(Dictionary(keys.data_type, values.data_type), keys.len, keys.nulls,
                        keys.values, <<>>, <<values>>))

\* the storage a flush leaves behind
reset_values_keep(v) == v

reset_values(v) == <<>>

reset_offsets(off) == OffsetBufferBuilder_new

reset_count(n) == 0

FR(st, arr, d) == [st |-> st, arr |-> arr, d |-> d]

primitive_type(k) ==
    CASE k = "TimeMillis" -> DT("Time32Millisecond")
      [] k = "TimeMicros" -> DT("Time64Microsecond")
      [] k = "Interval" -> DT("IntervalMonthDayNano")
      [] OTHER -> DT(k)

\* DecimalBuilder::finish
DecimalBuilder_finish(b, nulls, precision, scale) ==
    LET max == IF b.w = "Decimal128" THEN DECIMAL128_MAX_PRECISION
               ELSE DECIMAL256_MAX_PRECISION
        p == AsU8(precision)
        s == AsI8(scale)
    IN IF ~nulls_fit(nulls, Len(b.values)) THEN AR("Panic", NoArray)
       ELSE IF ~validate_decimal_precision_and_scale(p, s, max) THEN AR("Err", NoArray)
       ELSE AR("Ok", Array([t |-> b.w, precision |-> p, scale |-> s], Len(b.values), nulls,
                           b.values, <<>>, <<>>))

(***************************************************************************)
(* Decoder::flush(nulls): [st, arr, d], d the builder as the call leaves   *)
(* it.  A `?` returns at the first error, leaving the rest untouched.      *)
(***************************************************************************)
RECURSIVE Decoder_flush(_, _)
RECURSIVE flush_children(_, _, _, _)

\* children i.. of a record flushed in order: [st, arrays, children]
flush_children(children, i, nulls, arrays) ==
    IF i > Len(children) THEN [st |-> "Ok", arrays |-> arrays, children |-> children]
    ELSE The({ IF r.st # "Ok"
               THEN [st |-> r.st, arrays |-> arrays,
                     children |-> [children EXCEPT ![i] = r.d]]
               ELSE flush_children([children EXCEPT ![i] = r.d], i + 1, nulls,
                                   Append(arrays, r.arr)) :
               r \in {Decoder_flush(children[i], nulls)} })

\* the Map builder after its buffers were taken and its value decoder v flushed
map_taken(d, v) ==
    [d EXCEPT !.map_off = reset_offsets(@),
              !.key_off = reset_offsets(@),
              !.key_data = reset_values(@),
              !.val_decoder = v.d]

\* the struct of the keys and the values, then the map over it; each step is
\* unwrapped, so an error of either is one of the map
map_entries(key_arr, values) ==
    IF key_arr.st # "Ok" THEN AR("Err", NoArray)
    ELSE StructArray_new(<<Field_new("key", DT("Utf8"), FALSE),
                           Field_new("value", values.data_type, TRUE)>>,
                         <<key_arr.arr, values>>, None)

map_of_entries(d, entries, nulls) ==
    IF entries.st # "Ok" THEN AR("Err", NoArray)
    ELSE MapArray_new(d.field, d.map_off, entries.arr, nulls, FALSE)

map_array(d, values, nulls) ==
    map_of_entries(d,
                   map_entries(ByteArray_new(DT("Utf8"), d.key_off, d.key_data, None),
                               values),
                   nulls)

Decoder_flush(d, nulls) ==
    CASE d.k = "Null" ->
            FR("Ok", Array(DT("Null"), d.n, None, <<>>, <<>>, <<>>), [d EXCEPT !.n = reset_count(@)])
      [] d.k \in {"Boolean"} \cup VecKinds ->
            LET a == PrimitiveArray_new(primitive_type(d.k), d.values, nulls) IN
            FR(a.st, a.arr, [d EXCEPT !.values = reset_values(@)])
      [] d.k \in TimestampKinds ->
            LET a == PrimitiveArray_new(
                        Timestamp_type(IF d.k = "TimestampMillis" THEN "Millisecond"
                                       ELSE "Microsecond", d.is_utc),
                        d.values, nulls)
            IN FR(a.st, a.arr, [d EXCEPT !.values = reset_values(@)])
      [] d.k \in BytesKinds ->
            LET a == ByteArray_new(IF d.k = "Binary" THEN DT("Binary") ELSE DT("Utf8"),
                                   d.off, d.data, nulls)
            IN FR(a.st, a.arr, [d EXCEPT !.off = reset_offsets(@), !.data = reset_values(@)])
      [] d.k = "Record" ->
            The({ IF r.st # "Ok" THEN FR(r.st, NoArray, [d EXCEPT !.children = r.children])
                  ELSE The({ FR(a.st, a.arr, [d EXCEPT !.children = r.children]) :
                             a \in {StructArray_new(d.fields, r.arrays, nulls)} }) :
                  r \in {flush_children(d.children, 1, nulls, <<>>)} })
      [] d.k = "Enum" ->
            LET dict_values == symbols_array(d.symbols)
                idxs == IF nulls_fit(nulls, Len(d.indices))
                        THEN AR("Ok", Array(DT("Int32"), Len(d.indices), nulls, d.indices,
                                            <<>>, <<>>))
                        ELSE AR("Err", NoArray)
            IN IF idxs.st # "Ok" THEN FR("Err", NoArray, d)
               ELSE LET dict == DictionaryArray_try_new(idxs.arr, dict_values) IN
                    IF dict.st # "Ok" THEN FR("Err", NoArray, d)
                    ELSE FR("Ok", dict.arr, [d EXCEPT !.indices = reset_values(@)])
      [] d.k = "List" ->
            The({ IF c.st # "Ok" THEN FR(c.st, NoArray, [d EXCEPT !.child = c.d])
                  ELSE The({ FR(a.st, a.arr,
                                [d EXCEPT !.child = c.d, !.off = reset_offsets(@)]) :
                             a \in {ListArray_new(d.field, d.off, c.arr, nulls)} }) :
                  c \in {Decoder_flush(d.child, None)} })
      [] d.k = "Map" ->
            The({ IF v.st # "Ok" THEN FR(v.st, NoArray, map_taken(d, v))
                  ELSE The({ IF a.st # "Ok" THEN FR("Panic", NoArray, map_taken(d, v))
                             ELSE FR("Ok", a.arr,
                                     [map_taken(d, v) EXCEPT !.entry_count = reset_count(@)]) :
                             a \in {map_array(d, v.arr, nulls)} }) :
                  v \in {Decoder_flush(d.val_decoder, None)} })
      [] d.k = "Fixed" ->
            LET a == FixedSizeBinaryArray_try_new(d.fsize, d.buf, nulls) IN
            FR(a.st, a.arr, [d EXCEPT !.buf = reset_values(@)])
      [] d.k = "Decimal" ->
            LET nb == DecimalBuilder_new(d.precision, d.scale, d.size) IN
            IF ~nb.ok THEN FR("Err", NoArray, d)
            ELSE LET a == DecimalBuilder_finish(d.builder, nulls, d.precision,
                                                UnwrapOr(d.scale, 0))
                 IN FR(a.st, a.arr, [d EXCEPT !.builder = nb.d])
      [] d.k = "Interval" ->
            FR("Ok", Array(primitive_type(d.k), Len(d.values), nulls, d.values, <<>>, <<>>),
               [d EXCEPT !.values = reset_values(@)])
      [] d.k = "Nullable" ->
            The({ FR(r.st, r.arr, [d EXCEPT !.nulls = reset_values(@), !.child = r.d]) :
                  r \in {Decoder_flush(d.child, NullBufferBuilder_finish(d.nulls))} })

\* the columns flushed in field order: [st, arrays, fields]
flush_fields(fs) == flush_children(fs, 1, None, <<>>)

\* RecordBatch::try_new
RecordBatch_try_new(sch, arrays) ==
    /\ Len(sch) = Len(arrays)
    /\ Len(arrays) > 0
    /\ \A i \in 1..Len(arrays) :
          /\ arrays[i].len = arrays[1].len
          /\ sch[i].nullable \/ null_count(arrays[i]) = 0
          /\ arrays[i].data_type = sch[i].data_type

NoBatch == [st |-> "None", schema |-> <<>>, columns |-> <<>>]

\* a flush whose batch takes its schema from the columns it was given
RecordDecoder_flush_schema_of_columns(sch, fs) ==
    The({ IF r.st # "Ok"
          THEN [st |-> r.st, schema |-> <<>>, columns |-> <<>>, fields |-> r.children]
          ELSE IF RecordBatch_try_new(sch, r.arrays)
               THEN [st |-> "Ok",
                     schema |-> [i \in 1..Len(sch) |->
                                   Field_new(sch[i].name, r.arrays[i].data_type, TRUE)],
                     columns |-> r.arrays, fields |-> r.children]
               ELSE [st |-> "Err", schema |-> <<>>, columns |-> <<>>, fields |-> r.children] :
          r \in {flush_fields(fs)} })

\* RecordDecoder::flush: [st, schema, columns] of the batch, and the builders
\* as the call leaves them
RecordDecoder_flush(sch, fs) ==
    The({ IF r.st # "Ok"
          THEN [st |-> r.st, schema |-> <<>>, columns |-> <<>>, fields |-> r.children]
          ELSE IF RecordBatch_try_new(sch, r.arrays)
               THEN [st |-> "Ok", schema |-> sch, columns |-> r.arrays, fields |-> r.children]
               ELSE [st |-> "Err", schema |-> <<>>, columns |-> <<>>, fields |-> r.children] :
          r \in {flush_fields(fs)} })

(***************************************************************************)
(* Input.  A wire value describes one well-formed or ill-formed value of a *)
(* type node as a writer would lay it out: Encode gives its bytes, Logical *)
(* the value it stands for (an Option: None is null).                      *)
(*   nullable node  [branch, v]   branch index written, v the Option value *)
(*   Array          a sequence of blocks [neg, items]                      *)
(*   Map            [entries, term]: one block of <<key, value>> entries,  *)
(*                  and whether the terminating zero count is written      *)
(*   Record         the tuple of its fields' wire values                   *)
(***************************************************************************)
IntVals == {-1, 100}
\* the items of a generated array row are numbered: the j-th int item of a row
\* is ItemVals[j], the j-th entry of a map row has key KeyVals[j]
ItemVals == <<-1, 100>>
StrVals == {<<>>, <<104, 105>>}
KeyVals == <<(<<97>>), (<<98>>)>>
\* indices of an enum row: below, inside and beyond the symbols A, B
EnumVals == {-1, 0, 1, 2}
FixedBytes == {17, 34}
\* a generated fixed value counts up from its first byte
FixedVals(size) == {[i \in 1..size |-> b + i - 1] : b \in FixedBytes}
\* decimal byte strings for a storage of width bytes: empty, short, of the
\* full width, and one byte wider
DecimalVals(width) ==
    {<<>>, <<4, 210>>, <<251, 46>>, <<128>>,
     Repeat(255, width - 1) \o <<133>>, <<127>> \o Repeat(255, width - 1),
     Repeat(1, width + 1)}
BranchVals == {0, 1, 2}
\* durations on the wire, 12 bytes each: months, days, milliseconds
DurationVals ==
    {<<1, 0, 0, 0, 2, 0, 0, 0, 100, 0, 0, 0>>,
     <<255, 255, 255, 255, 10, 0, 0, 0, 15, 39, 0, 0>>,
     <<0, 0, 0, 0, 255, 255, 255, 255, 0, 0, 0, 128>>}

SeqsOf(S, lo, hi) == UNION {[1..n -> S] : n \in lo..hi}

RECURSIVE Product(_)
Product(sets) ==
    IF sets = <<>> THEN {<<>>}
    ELSE {<<x>> \o t : x \in Head(sets), t \in Product(Tail(sets))}

\* the branch index a writer gives the value branch of a two-branch union
WirePresent(nb) == IF nb = "NullFirst" THEN 1 ELSE 0

\* two's-complement big-endian value of at most three bytes
RECURSIVE Unsigned(_)
Unsigned(bytes) ==
    IF bytes = <<>> THEN 0 ELSE Unsigned(SubSeq(bytes, 1, Len(bytes) - 1)) * 256 + bytes[Len(bytes)]

TwosComplement(bytes) ==
    IF bytes = <<>> THEN 0
    ELSE IF bytes[1] >= 128 THEN Unsigned(bytes) - 256 ^ Len(bytes) ELSE Unsigned(bytes)

IsInt(dt) == dt.nullability = None /\ dt.codec.c = "Int32"

Numbered(dt, items) ==
    IsInt(dt) => \A j \in 1..Len(items) : j <= Len(ItemVals) /\ items[j] = ItemVals[j]

RECURSIVE WireValues(_)
\* the bytes of the storage of a decimal written as bytes
WireWidth(c) == IF c.precision > DECIMAL128_MAX_PRECISION THEN 32 ELSE 16

WireInner(dt) ==
    LET c == dt.codec IN
    CASE c.c \in {"Int32", "Int64", "Date32", "TimeMillis", "TimeMicros"} \cup TimestampKinds
            -> IntVals
      [] c.c \in BytesKinds -> StrVals
      [] c.c = "Null" -> {0}
      [] c.c = "Enum" -> EnumVals
      [] c.c = "Array" ->
            {v \in SeqsOf([neg : BOOLEAN, items : SeqsOf(WireValues(c.item), 1, MaxItems)],
                          0, MaxBlocks) :
                /\ Sum([b \in 1..Len(v) |-> Len(v[b].items)]) <= MaxItems
                /\ Numbered(c.item, Concat([b \in 1..Len(v) |-> v[b].items]))}
      [] c.c = "Map" ->
            {m \in [entries : SeqsOf(Range(KeyVals) \X WireValues(c.value), 0, MaxItems),
                     term : BOOLEAN] :
                /\ m.entries = <<>> => ~m.term
                /\ \A j \in 1..Len(m.entries) : j <= Len(KeyVals) /\ m.entries[j][1] = KeyVals[j]
                /\ Numbered(c.value, [j \in 1..Len(m.entries) |-> m.entries[j][2]])}
      [] c.c = "Record" -> Product([i \in 1..Len(c.fields) |-> WireValues(c.fields[i].data_type)])
      [] c.c = "Fixed" -> FixedVals(c.size)
      [] c.c = "Uuid" -> FixedVals(16)
      [] c.c = "Duration" -> DurationVals
      [] c.c = "Decimal" ->
            IF IsSome(c.size) THEN {Repeat(255, Unwrap(c.size) - 1) \o <<133>>,
                                    Repeat(0, Unwrap(c.size) - 2) \o <<48, 57>>}
            ELSE DecimalVals(WireWidth(c))

WireValues(dt) ==
    IF IsSome(dt.nullability)
    THEN {[branch |-> b, v |-> None] : b \in BranchVals \ {WirePresent(Unwrap(dt.nullability))}}
           \cup {[branch |-> WirePresent(Unwrap(dt.nullability)), v |-> Some(x)] :
                    x \in WireInner(dt)}
    ELSE WireInner(dt)

RECURSIVE Encode(_, _)
EncodeInner(dt, v) ==
    LET c == dt.codec IN
    CASE c.c \in {"Int32", "Date32", "TimeMillis", "Enum"} -> encode_avro_int(v)
      [] c.c \in {"Int64", "TimeMicros"} \cup TimestampKinds -> encode_avro_long(v)
      [] c.c \in BytesKinds -> encode_avro_bytes(v)
      [] c.c = "Null" -> <<>>
      [] c.c = "Array" ->
            Concat([b \in 1..Len(v) |->
                LET items == Concat([i \in 1..Len(v[b].items) |-> Encode(c.item, v[b].items[i])])
                IN IF v[b].neg
                   THEN encode_avro_long(-Len(v[b].items)) \o encode_avro_long(Len(items))
                          \o items
                   ELSE encode_avro_long(Len(v[b].items)) \o items])
              \o encode_avro_long(0)
      [] c.c = "Map" ->
            IF v.entries = <<>> THEN encode_avro_long(0)
            ELSE encode_avro_long(Len(v.entries))
                   \o Concat([i \in 1..Len(v.entries) |->
                         encode_avro_bytes(v.entries[i][1]) \o Encode(c.value, v.entries[i][2])])
                   \o (IF v.term THEN encode_avro_long(0) ELSE <<>>)
      [] c.c = "Record" ->
            Concat([i \in 1..Len(c.fields) |-> Encode(c.fields[i].data_type, v[i])])
      [] c.c \in {"Fixed", "Duration", "Uuid"} -> v
      [] c.c = "Decimal" -> IF IsSome(c.size) THEN v ELSE encode_avro_bytes(v)

Encode(dt, v) ==
    IF IsSome(dt.nullability)
    THEN encode_avro_int(v.branch) \o (IF IsSome(v.v) THEN EncodeInner(dt, Unwrap(v.v)) ELSE <<>>)
    ELSE EncodeInner(dt, v)

\* no union branch index other than 0 and 1 anywhere in the value
RECURSIVE WellFormed(_, _)
WellFormedInner(dt, v) ==
    LET c == dt.codec IN
    CASE c.c = "Array" ->
            \A b \in 1..Len(v) : \A i \in 1..Len(v[b].items) : WellFormed(c.item, v[b].items[i])
      [] c.c = "Map" -> \A i \in 1..Len(v.entries) : WellFormed(c.value, v.entries[i][2])
      [] c.c = "Record" -> \A i \in 1..Len(c.fields) : WellFormed(c.fields[i].data_type, v[i])
      [] c.c = "Decimal" -> IsSome(c.size) \/ Len(v) <= WireWidth(c)
      [] OTHER -> TRUE

WellFormed(dt, v) ==
    IF IsSome(dt.nullability)
    THEN v.branch \in {0, 1} /\ (IsSome(v.v) => WellFormedInner(dt, Unwrap(v.v)))
    ELSE WellFormedInner(dt, v)

RECURSIVE Logical(_, _)
LogicalInner(dt, v) ==
    LET c == dt.codec IN
    CASE c.c = "Array" ->
            Concat([b \in 1..Len(v) |->
                       [i \in 1..Len(v[b].items) |-> Logical(c.item, v[b].items[i])]])
      [] c.c = "Map" ->
            [i \in 1..Len(v.entries) |-> <<v.entries[i][1], Logical(c.value, v.entries[i][2])>>]
      [] c.c = "Record" -> [i \in 1..Len(c.fields) |-> Logical(c.fields[i].data_type, v[i])]
      [] c.c = "Decimal" -> from_be_bytes(v)
      [] c.c = "Duration" ->
            [months |-> i32_from_le_bytes(SubSeq(v, 1, 4)),
             days |-> i32_from_le_bytes(SubSeq(v, 5, 8)),
             nanoseconds |-> [millis |-> i32_from_le_bytes(SubSeq(v, 9, 12)),
                              times |-> "1_000_000"]]
      [] OTHER -> v

Logical(dt, v) ==
    IF IsSome(dt.nullability)
    THEN IF IsSome(v.v) THEN Some(LogicalInner(dt, Unwrap(v.v))) ELSE None
    ELSE Some(LogicalInner(dt, v))

\* the value an array holds at row i (1-based), as an Option
RECURSIVE ArrRow(_, _)
ArrRow(arr, i) ==
    IF ~is_valid(arr, i) THEN None
    ELSE LET t == arr.data_type.t
             lo == arr.offsets[i]
             hi == arr.offsets[i + 1]
         IN Some(
            CASE t \in {"Utf8", "Binary"} -> SubSeq(arr.values, lo + 1, hi)
              [] t = "Struct" -> [c \in 1..Len(arr.children) |-> ArrRow(arr.children[c], i)]
              [] t = "List" -> [j \in 1..(hi - lo) |-> ArrRow(arr.children[1], lo + j)]
              [] t = "Map" ->
                    [j \in 1..(hi - lo) |->
                        <<Unwrap(ArrRow(arr.children[1].children[1], lo + j)),
                          ArrRow(arr.children[1].children[2], lo + j)>>]
              [] t = "FixedSizeBinary" ->
                    SubSeq(arr.values, (i - 1) * arr.data_type.size + 1, i * arr.data_type.size)
              [] t \in {"Decimal128", "Decimal256"} -> arr.values[i]
              [] t = "Null" -> 0
              [] OTHER -> arr.values[i])

\* rows held by a builder
RECURSIVE RowCount(_)
RowCount(d) ==
    CASE d.k = "Null" -> d.n
      [] d.k \in BytesKinds \cup {"List"} -> Len(d.off) - 1
      [] d.k = "Map" -> Len(d.map_off) - 1
      [] d.k = "Record" -> IF Len(d.children) = 0 THEN 0 ELSE RowCount(d.children[1])
      [] d.k = "Enum" -> Len(d.indices)
      [] d.k = "Fixed" -> IF d.fsize = 0 THEN 0 ELSE Len(d.buf) \div d.fsize
      [] d.k = "Decimal" -> Len(d.builder.values)
      [] d.k = "Nullable" -> Len(d.nulls)
      [] OTHER -> Len(d.values)

(***************************************************************************)
(* The type nodes handed to RecordDecoder::try_new.                        *)
(***************************************************************************)
Nullable(dt, nb) == [dt EXCEPT !.nullability = Some(nb)]
RecordOf(fs) == from_codec(Codec_Record(fs))
F(name, dt) == AvroField(name, dt, None)
Int32T == from_codec(Prim("Int32"))
StringT == from_codec(Prim("String"))

Schemas ==
    { RecordOf(<<F("a", Nullable(Int32T, "NullFirst")), F("b", Int32T)>>),
      RecordOf(<<F("s", Nullable(StringT, "NullSecond")), F("b", Int32T)>>),
      RecordOf(<<F("l", from_codec(Codec_Array(Int32T)))>>),
      RecordOf(<<F("m", from_codec(Codec_Map(Int32T)))>>),
      RecordOf(<<F("nm", Nullable(from_codec(Codec_Map(Int32T)), "NullFirst"))>>),
      RecordOf(<<F("e", from_codec(Codec_Enum(<<"A", "B">>)))>>),
      RecordOf(<<F("d", Nullable(from_codec(Codec_Decimal(4, Some(1), None)), "NullSecond"))>>),
      RecordOf(<<F("f", Nullable(from_codec(Codec_Fixed(2)), "NullFirst")), F("b", Int32T)>>),
      RecordOf(<<F("nl", Nullable(from_codec(Codec_Array(Int32T)), "NullFirst"))>>),
      RecordOf(<<F("r", Nullable(RecordOf(<<F("x", Nullable(Int32T, "NullFirst")),
                                            F("y", Int32T)>>), "NullSecond"))>>),
      RecordOf(<<F("q", Nullable(RecordOf(<<F("y", Int32T)>>), "NullFirst"))>>),
      RecordOf(<<F("w", from_codec(Codec_Decimal(40, Some(2), None)))>>),
      RecordOf(<<F("d", from_codec(Codec_Decimal(100, None, None)))>>),
      RecordOf(<<F("i", from_codec(Prim("Duration")))>>),
      RecordOf(<<F("u", from_codec(Prim("Uuid")))>>),
      RecordOf(<<F("b", Int32T), F("a", Nullable(Int32T, "NullSecond"))>>),
      Nullable(RecordOf(<<F("b", Int32T)>>), "NullFirst"),
      Nullable(RecordOf(<<F("b", Int32T)>>), "NullSecond"),
      Int32T,
      Nullable(Int32T, "NullFirst"),
      from_codec(Codec_Array(Int32T)),
      from_codec(Codec_Enum(<<"A", "B">>)) }

TopFields == IF created THEN data_type.codec.fields ELSE <<>>

(***************************************************************************)
(* The decoder as a state machine: try_new (Init), decode, flush.          *)
(***************************************************************************)
NoSchema == [s |-> "None"]
NotMade == MR("None", NoType, Resolver_default)
NotBuilt == [st |-> "None", schema |-> <<>>, fields |-> <<>>]

Call(op, st, n, count, len, clean) ==
    [op |-> op, st |-> st, n |-> n, count |-> count, len |-> len, clean |-> clean, bad |-> 0,
     wide |-> 0]

Init ==
    /\ data_type \in Schemas
    /\ \E r \in {RecordDecoder_try_new(data_type)} :
         /\ created = r.ok
         /\ schema = r.schema
         /\ fields = r.fields
         /\ last = Call("try_new", IF r.ok THEN "Ok" ELSE "Err", 0, 0, 0, TRUE)
    /\ batch = NoBatch
    /\ rowsOk = <<>>
    /\ sumOk = 0
    /\ soiled = FALSE
    /\ asked = 0
    /\ input = NoSchema
    /\ made = NotMade
    /\ arrow = None
    /\ reversed = None
    /\ built = NotBuilt

Alive == created /\ last.st # "Panic"

RowValues == Product([i \in 1..Len(TopFields) |-> WireValues(TopFields[i].data_type)])

EncodeRow(row) == Concat([i \in 1..Len(TopFields) |-> Encode(TopFields[i].data_type, row[i])])

LogicalRow(row) == [i \in 1..Len(TopFields) |-> Logical(TopFields[i].data_type, row[i])]

WellFormedRow(row) == \A i \in 1..Len(TopFields) : WellFormed(TopFields[i].data_type, row[i])

\* the columns of the first row of a call at which the decoder reads a union
\* branch index other than 0 and 1: the columns before are well formed and the
\* buffer holds the index
BadColumns(rows, count, cut) ==
    IF count = 0 THEN {}
    ELSE {k \in 1..Len(TopFields) :
             /\ IsSome(TopFields[k].data_type.nullability)
             /\ rows[1][k].branch \notin {0, 1}
             /\ \A i \in 1..(k - 1) : WellFormed(TopFields[i].data_type, rows[1][i])
             /\ cut > Len(Concat([i \in 1..(k - 1) |->
                                     Encode(TopFields[i].data_type, rows[1][i])]))}

\* the columns of the first row of a call at which the decoder reads a decimal
\* of more bytes than its storage: the columns before are well formed and the
\* buffer holds the whole value
WideColumns(rows, count, cut) ==
    IF count = 0 THEN {}
    ELSE {k \in 1..Len(TopFields) :
             /\ TopFields[k].data_type.codec.c = "Decimal"
             /\ ~WellFormed(TopFields[k].data_type, rows[1][k])
             /\ IsSome(TopFields[k].data_type.nullability) => rows[1][k].branch \in {0, 1}
             /\ \A i \in 1..(k - 1) : WellFormed(TopFields[i].data_type, rows[1][i])
             /\ cut >= Len(Concat([i \in 1..k |->
                                      Encode(TopFields[i].data_type, rows[1][i])]))}

FirstOf(S) == IF S = {} THEN 0 ELSE The(S)

\* a history value as the next call finds it: a flush closes the period it covers
Since(x, empty) == IF last.op = "flush" THEN empty ELSE x

\* decode(buf, count): buf holds the first cut bytes of the encoding of rows; a
\* short buffer ends inside the last row or right before it
Decode ==
    /\ Alive
    /\ \E count \in 0..MaxCount :
         /\ asked + count <= MaxAsked
         /\ \A k \in 1..Len(fields) : RowCount(fields[k]) + count <= MaxRows
         /\ \E rows \in [1..count -> RowValues] :
            \E full \in {Concat([i \in 1..count |-> EncodeRow(rows[i])])} :
            \E cut \in (IF count = 0 THEN 0 ELSE Len(full) - Len(EncodeRow(rows[count])))
                          ..Len(full) :
            \E r \in {RecordDecoder_decode(fields, SubSeq(full, 1, cut), count)} :
               /\ fields' = r.d
               /\ asked' = asked + count
               /\ last' = [Call("decode", r.st, IF r.st = "Ok" THEN r.pos ELSE 0, count, cut,
                                cut = Len(full) /\ \A i \in 1..count : WellFormedRow(rows[i]))
                             EXCEPT !.bad = FirstOf(BadColumns(rows, count, cut)),
                                    !.wide = FirstOf(WideColumns(rows, count, cut))]
               /\ rowsOk' = IF r.st = "Ok"
                            THEN Since(rowsOk, <<>>) \o [i \in 1..count |-> LogicalRow(rows[i])]
                            ELSE Since(rowsOk, <<>>)
               /\ sumOk' = IF r.st = "Ok" THEN Since(sumOk, 0) + count ELSE Since(sumOk, 0)
               /\ soiled' = (soiled \/ r.st # "Ok")
    /\ batch' = NoBatch
    /\ UNCHANGED <<data_type, created, schema, input, made, arrow, reversed, built>>

Flush ==
    /\ Alive
    /\ \E r \in {RecordDecoder_flush(schema, fields)} :
         /\ fields' = r.fields
         /\ batch' = [st |-> r.st, schema |-> r.schema, columns |-> r.columns]
         /\ last' = Call("flush", r.st, 0, 0, 0, ~soiled)
         /\ soiled' = (r.st # "Ok")
    /\ rowsOk' = Since(rowsOk, <<>>)
    /\ sumOk' = Since(sumOk, 0)
    /\ UNCHANGED <<data_type, created, schema, asked, input, made, arrow, reversed, built>>

Next == Decode \/ Flush

Spec == Init /\ [][Next]_vars

(***************************************************************************)
(* The schema translator as a state machine.  A run starts from an Avro    *)
(* schema, which make_data_type translates with no inherited namespace and *)
(* an empty resolver (as AvroField::try_from calls it); the type node      *)
(* gives a columnar field and a RecordDecoder.  Or it starts from a        *)
(* columnar field a consumer presents.  Either field can be translated     *)
(* back.                                                                   *)
(***************************************************************************)
\* longest union in the generated schemas
MaxBranches == 3

NoAttributes == Attributes(None, {})
Annotated(lt, additional) == Attributes(Some(lt), additional)

\* a record R with the fields of the given types, named f1, f2, ...
FieldNames == <<"f1", "f2", "f3">>
RootRecord(namespace, types) ==
    Schema_Record("R", namespace,
                  [i \in 1..Len(types) |-> Schema_Field(FieldNames[i], types[i], None)],
                  NoAttributes)

UnionBranches == {Primitive("Null"), Primitive("Int"), Primitive("String")}

UnionInputs ==
    {Union(u) : u \in SeqsOf(UnionBranches, 1, MaxBranches)}
      \cup {RootRecord(None, <<Union(u)>>) : u \in SeqsOf(UnionBranches, 1, 2)}
      \cup { Union(<<Primitive("Null"), Union(<<Primitive("Int"), Primitive("Null")>>)>>),
             Union(<<Union(<<Primitive("Null"), Primitive("Int")>>), Primitive("Null")>>),
             Union(<<Primitive("Null"), Union(<<Primitive("Int"), Primitive("String")>>)>>),
             Union(<<Primitive("Null"), Ref(<<"Missing">>)>>),
             Union(<<Schema_Type(Primitive("Null"), NoAttributes), Primitive("Int")>>),
             Union(<<Primitive("Null"), Schema_Array(Primitive("Int"), NoAttributes)>>),
             Union(<<Schema_Map(Primitive("Long"), NoAttributes), Primitive("Null")>>) }

LogicalTypes ==
    {"decimal", "uuid", "date", "time-millis", "time-micros", "timestamp-millis",
     "timestamp-micros", "local-timestamp-millis", "local-timestamp-micros", "duration",
     "custom"}

Underlying == {Primitive("Int"), Primitive("Long"), Primitive("String"), Primitive("Bytes")}

DecoratedInputs ==
    {Schema_Type(t, Attributes(lt, add)) :
        t \in Underlying,
        lt \in {None} \cup {Some(x) : x \in LogicalTypes},
        add \in {{}, {<<"doc", Str("d")>>, <<"precision", Num(5)>>}}}

DecimalAttributes ==
    {p \cup sc :
        p \in {{}} \cup {{<<"precision", v>>} : v \in {Num(10), Num(38), Num(39), Num(76),
                                                         Num(77), Num(266), Str("10")}},
        sc \in {{}, {<<"scale", Num(2)>>}, {<<"scale", Num(200)>>}}}

DecimalInputs ==
    {RootRecord(None, <<Schema_Type(Primitive("Bytes"), Annotated("decimal", add))>>) :
        add \in DecimalAttributes}

FixedSizes == {4, 17, 40}

FixedSchemas ==
    {Schema_Fixed("F", size, Attributes(lt, add)) :
        size \in FixedSizes,
        lt \in {None, Some("decimal")},
        add \in {{}, {<<"precision", Num(10)>>}, {<<"scale", Num(2)>>},
                 {<<"precision", Num(10)>>, <<"scale", Num(2)>>},
                 {<<"precision", Str("10")>>}}}

FixedInputs ==
    FixedSchemas
      \cup {RootRecord(Some(<<"a">>), <<fx, Ref(<<"F">>)>>) : fx \in FixedSchemas}

\* a logical type on a reference to a fixed declared before it
DecoratedFixedInputs ==
    {RootRecord(None, <<Schema_Fixed("F", size, NoAttributes),
                        Schema_Type(Ref(<<"F">>), Annotated(lt, add))>>) :
        size \in {12, 16},
        lt \in {"duration", "decimal", "uuid"},
        add \in {{}, {<<"size", Num(20)>>, <<"precision", Num(5)>>}}}

EnumE == Schema_Enum("E", <<"A", "B">>, NoAttributes)
FixedF == Schema_Fixed("F", 4, NoAttributes)
Inner(namespace, types) ==
    Schema_Record("Inner", namespace,
                  [i \in 1..Len(types) |-> Schema_Field(FieldNames[i], types[i], None)],
                  Attributes(None, {<<"doc", Str("inner")>>}))

\* references before and after the declaration they name, in and out of its
\* namespace, and to the record that encloses them
RefInputs ==
    UNION {
      { RootRecord(ns, <<FixedF, r>>), RootRecord(ns, <<r, FixedF>>),
        RootRecord(ns, <<EnumE, r>>),
        RootRecord(ns, <<r>>),
        RootRecord(ns, <<Inner(None, <<Primitive("Int")>>), r>>),
        RootRecord(ns, <<Inner(Some(<<"b">>), <<EnumE>>), r>>),
        RootRecord(ns, <<Inner(Some(<<"b">>), <<r>>)>>),
        RootRecord(ns, <<Schema_Array(FixedF, NoAttributes), Schema_Map(r, NoAttributes)>>),
        RootRecord(ns, <<Union(<<Primitive("Null"), EnumE>>), Union(<<r, Primitive("Null")>>)>>) } :
      ns \in {None, Some(<<"a">>)},
      r \in {Ref(<<"F">>), Ref(<<"E">>), Ref(<<"a", "F">>), Ref(<<"b", "E">>), Ref(<<"R">>),
              Ref(<<"a", "R">>), Ref(<<"Inner">>), Ref(<<"b", "Inner">>)} }

\* fields with and without a default, over types with and without metadata
DefaultInputs ==
    {Schema_Record("R", None,
                   <<Schema_Field("f1", t, d), Schema_Field("f2", Primitive("Long"), None)>>,
                   NoAttributes) :
        t \in {Primitive("Int"),
                Union(<<Primitive("Null"), Primitive("String")>>),
                Schema_Type(Primitive("Int"), Attributes(None, {<<"doc", Str("d")>>})),
                Schema_Type(Primitive("Int"), Attributes(None, {<<"avro.default", Num(1)>>}))},
        d \in {None, Some(Num(42)), Some(Str("x"))}}

\* a named type declared inside a null-union, then referred to inside a
\* null-union and plainly
WrappedInputs ==
    {RootRecord(None, <<Union(<<Primitive("Null"), t>>),
                        Union(<<Ref(<<t.name>>), Primitive("Null")>>),
                        Ref(<<t.name>>)>>) :
        t \in {FixedF, EnumE, Inner(None, <<Primitive("Int")>>)}}

\* two fixed types of one name, then a reference by the simple name, by the
\* full name a.b.F and by the name b.F
TwiceInputs ==
    {RootRecord(ns, <<Schema_Fixed("F", 4, NoAttributes), Schema_Fixed("F", 8, NoAttributes),
                      r>>) :
        ns \in {None, Some(<<"a", "b">>)},
        r \in {Ref(<<"F">>), Ref(<<"a", "b", "F">>), Ref(<<"b", "F">>)}}

AvroSchemas ==
    UnionInputs \cup DecoratedInputs \cup DecimalInputs \cup FixedInputs
      \cup DecoratedFixedInputs \cup RefInputs \cup DefaultInputs \cup WrappedInputs
      \cup TwiceInputs

\* fields a consumer presents to reverse translation
ArrowTypes ==
    {DT("Null"), DT("Boolean"), DT("Int8"), DT("Int16"), DT("Int32"), DT("Int64"),
     DT("Float32"), DT("Float64"), DT("Binary"), DT("LargeBinary"), DT("Utf8"),
     DT("Date32"), DT("Date64"), DT("Time32Millisecond"), DT("Time64Microsecond"),
     DT("IntervalMonthDayNano"),
     Dictionary(DT("Int32"), DT("Utf8")), Dictionary(DT("Utf8"), DT("Int32")),
     [t |-> "FixedSizeBinary", size |-> 16],
     [t |-> "Decimal128", precision |-> 10, scale |-> 2],
     [t |-> "Decimal256", precision |-> 50, scale |-> 0],
     [t |-> "Timestamp", unit |-> "Millisecond", tz |-> Some("UTC")],
     [t |-> "Timestamp", unit |-> "Microsecond", tz |-> Some("+00:00")],
     [t |-> "Timestamp", unit |-> "Microsecond", tz |-> None],
     [t |-> "Timestamp", unit |-> "Second", tz |-> None]}

ArrowLeaves ==
    {with_metadata(Field_new("x", t, n), md) :
        t \in {DT("Int16"), DT("Utf8")}, n \in BOOLEAN, md \in {{}, {<<"namespace", "ns">>}}}

ArrowFields ==
    {Field_new("c", t, n) : t \in ArrowTypes, n \in BOOLEAN}
      \cup {Field_new("c", [t |-> "Struct", fields |-> <<a, b>>], n) :
                a \in ArrowLeaves, b \in {Field_new("y", DT("Int64"), FALSE)}, n \in BOOLEAN}
      \cup {Field_new("c", [t |-> "List", field |-> a], n) : a \in ArrowLeaves, n \in BOOLEAN}
      \cup {Field_new("c",
                      [t |-> "Map",
                       field |-> Field_new("entries",
                                    [t |-> "Struct",
                                     fields |-> <<Field_new("key", DT("Utf8"), FALSE), a>>],
                                    FALSE),
                       sorted |-> FALSE],
                      n) : a \in ArrowLeaves, n \in BOOLEAN}
      \cup {Field_new("c", [t |-> "Map", field |-> Field_new("entries", DT("Utf8"), FALSE),
                            sorted |-> FALSE], TRUE)}

\* A negative i8 scale cast to usize is 2^64 less its magnitude, beyond the
\* integers of the model: such fields are not presented to reverse translation.
RECURSIVE ScalesFit(_)
ScalesFit(dt) ==
    CASE dt.t \in {"Decimal128", "Decimal256"} -> dt.scale >= 0
      [] dt.t = "Struct" -> \A i \in 1..Len(dt.fields) : ScalesFit(dt.fields[i].data_type)
      [] dt.t \in {"List", "Map"} -> ScalesFit(dt.field.data_type)
      [] OTHER -> TRUE

SchemaInit ==
    /\ \/ input \in AvroSchemas /\ arrow = None
       \/ input = NoSchema /\ arrow \in {Some(f) : f \in ArrowFields}
    /\ made = NotMade
    /\ reversed = None
    /\ built = NotBuilt
    /\ data_type = NoType
    /\ created = FALSE
    /\ schema = <<>>
    /\ fields = <<>>
    /\ last = Call("none", "None", 0, 0, 0, TRUE)
    /\ batch = NoBatch
    /\ rowsOk = <<>>
    /\ sumOk = 0
    /\ soiled = FALSE
    /\ asked = 0

DecoderVars == <<data_type, created, schema, fields, last, batch, rowsOk, sumOk, soiled, asked>>

\* make_data_type(schema, None, &mut Resolver::default())
Translate ==
    /\ input # NoSchema
    /\ made = NotMade
    /\ made' = make_data_type(input, None, Resolver_default)
    /\ UNCHANGED <<DecoderVars, input, arrow, reversed, built>>

\* the columnar field of the translated type
Derive ==
    /\ made.st = "Ok"
    /\ arrow = None
    /\ arrow' = Some(AvroField_field(AvroField("col", made.dt, None)))
    /\ UNCHANGED <<DecoderVars, input, made, reversed, built>>

\* arrow_field_to_avro_field
Reverse ==
    /\ IsSome(arrow)
    /\ reversed = None
    /\ ScalesFit(Unwrap(arrow).data_type)
    /\ reversed' = Some(arrow_field_to_avro_field(Unwrap(arrow)))
    /\ UNCHANGED <<DecoderVars, input, made, arrow, built>>

\* RecordDecoder::try_new on the translated type
TryNew ==
    /\ made.st = "Ok"
    /\ built = NotBuilt
    /\ \E r \in {RecordDecoder_try_new(made.dt)} :
          built' = [st |-> IF r.ok THEN "Ok" ELSE "Err", schema |-> r.schema,
                    fields |-> r.fields]
    /\ UNCHANGED <<DecoderVars, input, made, arrow, reversed>>

SchemaNext == Translate \/ Derive \/ Reverse \/ TryNew

SchemaSpec == SchemaInit /\ [][SchemaNext]_vars

(***************************************************************************)
(* Properties.                                                             *)
(***************************************************************************)
Flushed == last.op = "flush" /\ batch.st = "Ok"

\* C1: every column of a batch that flush returns has a length equal to the sum
\* of count over the decode calls that returned Ok since the previous flush (or
\* try_new), also when decode calls that returned an error lie in between.
C1_batch_length_is_sum_of_ok_counts ==
    Flushed => \A k \in 1..Len(batch.columns) : batch.columns[k].len = sumOk

\* a flush that returned a batch, after decode calls that all returned Ok
CleanFlushed == Flushed /\ last.clean

NullableCols == {k \in 1..Len(TopFields) : IsSome(TopFields[k].data_type.nullability)}

NoMapCol == \A k \in 1..Len(TopFields) : TopFields[k].data_type.codec.c # "Map"

\* C2: in a Nullable column the flushed validity bit of a row decoded with branch
\* index 0 or 1 is true exactly when the branch written for the row is the value
\* branch (1 for NullFirst, 0 for NullSecond); the child is read from the wire
\* only then, a null row takes the branch index alone: a decode call given the
\* whole encoding of its rows returns Ok, and one that returns Ok has read it all.
C2_validity_is_value_branch ==
    /\ CleanFlushed =>
          \A k \in NullableCols :
             /\ batch.columns[k].len = Len(rowsOk)
             /\ \A i \in 1..Len(rowsOk) :
                   is_valid(batch.columns[k], i) <=> IsSome(rowsOk[i][k])
    /\ (last.op = "decode" /\ NullableCols # {} /\ NoMapCol) =>
          /\ last.clean => last.st = "Ok"
          /\ last.st = "Ok" => last.n = last.len

C2_witness ==
    /\ CleanFlushed
    /\ \E k \in NullableCols :
          /\ TopFields[k].data_type.nullability = Some("NullSecond")
          /\ Len(rowsOk) = 2
          /\ ~is_valid(batch.columns[k], 1)
          /\ is_valid(batch.columns[k], 2)

ArrayCols ==
    {k \in 1..Len(TopFields) : /\ TopFields[k].data_type.nullability = None
                               /\ TopFields[k].data_type.codec.c = "Array"}

\* C3: decoding a row of a non-nullable Array column reads blocks up to a zero
\* count, a negative count n standing for |n| items behind one more long that is
\* dropped, so that a call given the whole encoding of its rows returns Ok and
\* one that returns Ok has read it all; in the
\* flushed column offsets[i+1] - offsets[i] is the number of items of row i over
\* all its blocks and the child values between the two offsets are the items of
\* the row in wire order.
C3_array_offsets_and_items ==
    /\ CleanFlushed =>
          \A k \in ArrayCols :
             LET col == batch.columns[k] IN
             /\ col.len = Len(rowsOk)
             /\ col.offsets[1] = 0
             /\ \A i \in 1..Len(rowsOk) :
                   LET items == Unwrap(rowsOk[i][k])
                       lo == col.offsets[i]
                       hi == col.offsets[i + 1]
                   IN /\ hi - lo = Len(items)
                      /\ \A j \in 1..Len(items) : ArrRow(col.children[1], lo + j) = items[j]
    /\ (last.op = "decode" /\ ArrayCols # {} /\ NoMapCol) =>
          /\ last.clean => last.st = "Ok"
          /\ last.st = "Ok" => last.n = last.len

\* a row of two items in two blocks with negative counts was decoded: one byte
\* for each count and each block size, three for the items, one for the zero
C3_witness ==
    /\ last.op = "decode" /\ last.st = "Ok" /\ last.count = 1 /\ last.n = 8
    /\ TopFields[1].data_type.codec.c = "Array"
    /\ 1 \in ArrayCols
    /\ fields[1].off = <<0, 2>>
    /\ fields[1].child.values = <<-1, 100>>

MapCols ==
    {k \in 1..Len(TopFields) : /\ TopFields[k].data_type.nullability = None
                               /\ TopFields[k].data_type.codec.c = "Map"}

\* C4: after any number of map rows decoded since the last flush, by calls that
\* all returned Ok, the offset recorded for a row of a Map column is the number
\* of entries decoded up to and including that row: the offsets never step
\* back and the last one is the length of the entries (the keys decoded), for
\* two and more non-empty rows as for one.
C4_map_offsets_are_cumulative ==
    ~soiled =>
       \A k \in MapCols :
          LET d == fields[k] IN
          /\ \A i \in 1..(Len(d.map_off) - 1) : d.map_off[i] <= d.map_off[i + 1]
          /\ last_offset(d.map_off) = Len(d.key_off) - 1

DecimalCols == {k \in 1..Len(TopFields) : TopFields[k].data_type.codec.c = "Decimal"}

\* C5: a Decimal column decodes a wire byte sequence of any length from 0 to its
\* storage width (16 or 32 bytes) to the integer the sequence is as a big-endian
\* two's-complement number: it is padded on the left with 0xFF when the high
\* bit of its first byte is set and with 0x00 otherwise, and the empty
\* sequence is zero.
C5_decimal_is_twos_complement ==
    /\ CleanFlushed =>
          \A k \in DecimalCols :
             /\ batch.columns[k].len = Len(rowsOk)
             /\ \A i \in 1..Len(rowsOk) :
                   IsSome(rowsOk[i][k]) => batch.columns[k].values[i] = Unwrap(rowsOk[i][k])
    /\ (last.op = "decode" /\ last.clean /\ DecimalCols # {}) =>
          last.st = "Ok" /\ last.n = last.len

\* a negative number of two bytes, one of the full 32 bytes and the empty
\* sequence have been decoded into a Decimal256 column and flushed
C5_witness ==
    /\ CleanFlushed
    /\ \E k \in DecimalCols :
          /\ batch.columns[k].data_type.t = "Decimal256"
          /\ Len(rowsOk) = 2
          /\ \E i, j \in 1..2 :
                /\ Len(batch.columns[k].values[i]) = 2
                /\ TwosComplement(batch.columns[k].values[i]) = -1234
                /\ Len(batch.columns[k].values[j]) = 32
                /\ batch.columns[k].values[j][1] = 127

\* the builders as try_new makes them
Fresh == RecordDecoder_try_new(data_type).fields

\* C6: after a flush that returned Ok every builder of the tree is as try_new
\* made it (value vectors, offset builders, byte buffers, null masks, the Null
\* counter, enum indices and the Map entry count); a flush that follows at once
\* returns columns of length 0, and a decode that follows holds just its own
\* rows, with offsets that start at 0.
C6_flush_empties_every_builder ==
    /\ [](Flushed => fields = Fresh)
    /\ [][Flushed =>
            /\ last'.op = "flush" =>
                  /\ batch'.st = "Ok"
                  /\ \A k \in 1..Len(batch'.columns) : batch'.columns[k].len = 0
            /\ (last'.op = "decode" /\ last'.st = "Ok") =>
                  \A k \in 1..Len(fields') :
                     /\ RowCount(fields'[k]) = last'.count
                     /\ fields'[k].k \in {"List", "String", "Binary"} => fields'[k].off[1] = 0
         ]_vars

\* two rows of an Array column, three items in all, were flushed
C6_witness ==
    /\ Flushed
    /\ ArrayCols # {}
    /\ batch.columns[1].len = 2
    /\ batch.columns[1].children[1].len = 3
    /\ fields = Fresh

\* every type nested in a Record node can be given a builder
NestedConstructible(dt) ==
    \A i \in 1..Len(dt.codec.fields) : Decoder_try_new(dt.codec.fields[i].data_type).ok

\* C7: RecordDecoder::try_new succeeds for every type node whose variant is
\* Record, whatever the nullability of the node, when every nested type is
\* constructible, and returns an error for every node of another variant.
C7_try_new_accepts_every_record ==
    /\ (data_type.codec.c = "Record" /\ NestedConstructible(data_type)) => created
    /\ data_type.codec.c # "Record" => ~created

\* C8: a decode(buf, count) call that returns Ok(n) has appended exactly count
\* rows to every top-level column and n is the number of bytes of buf read for
\* them, the cursor position behind the last field of the last row (all of buf
\* where no Map column leaves bytes unread); decode(buf, 0) returns Ok(0) and
\* changes no builder.
C8_decode_appends_count_rows ==
    [][last'.op = "decode" =>
         /\ last'.st = "Ok" =>
               /\ \A k \in 1..Len(fields) :
                     RowCount(fields'[k]) = RowCount(fields[k]) + last'.count
               /\ last'.n <= last'.len
               /\ NoMapCol => last'.n = last'.len
         /\ last'.count = 0 =>
               last'.st = "Ok" /\ last'.n = 0 /\ fields' = fields
      ]_vars

\* a call for two rows of a record of two fields returned Ok
C8_witness ==
    /\ last.op = "decode" /\ last.st = "Ok" /\ last.count = 2 /\ last.n > 2
    /\ Len(fields) = 2
    /\ \A k \in 1..2 : RowCount(fields[k]) = 2
    /\ Len(rowsOk) = 2

\* C9: in every batch that flush returns, column k is the column of the k-th
\* declared field of the record and row j of every column holds the value of
\* the j-th row decoded since the previous flush, over any number of decode
\* calls (all of which returned Ok); no row decoded before the previous flush
\* is in a later batch.
C9_columns_and_rows_in_order ==
    CleanFlushed =>
       /\ Len(batch.columns) = Len(TopFields)
       /\ \A k \in 1..Len(TopFields) :
             /\ schema[k].name = TopFields[k].name
             /\ batch.columns[k].data_type = schema[k].data_type
             /\ batch.columns[k].len = Len(rowsOk)
             /\ \A j \in 1..Len(rowsOk) : ArrRow(batch.columns[k], j) = rowsOk[j][k]

EnumCols == {k \in 1..Len(TopFields) : TopFields[k].data_type.codec.c = "Enum"}

\* C10: the physical type derived for an Enum node is a dictionary with 32-bit
\* integer keys and Utf8 values, the type of the column that flushing the Enum
\* builder gives (Int32 keys over the Utf8 symbols).
C10_enum_type_is_int32_keyed_dictionary ==
    \A k \in EnumCols :
       LET t == Codec_data_type(TopFields[k].data_type.codec)
           col == Decoder_flush(fields[k], None)
       IN /\ t = Dictionary(DT("Int32"), DT("Utf8"))
          /\ schema[k].data_type = t
          /\ col.st = "Ok" => col.arr.data_type = t

(***************************************************************************)
(* Properties of the schema translator.                                    *)
(***************************************************************************)
Translated == made.st # "None"

NullCount(u) == Cardinality({i \in 1..Len(u) : u[i] = Primitive("Null")})

\* the branch of a two-branch union that is not at the index of its null
OtherBranch(u) == IF u[1] = Primitive("Null") THEN u[2] ELSE u[1]

\* C11: a union translates only when it has exactly two branches of which
\* exactly one is null: the result is then the translation of the other branch
\* (an error of that branch is the union's), annotated NullFirst when null is at
\* index 0 and NullSecond when it is at index 1.  A union of any other shape
\* (one branch, more than two, two non-null branches, two null branches) fails
\* with not-yet-implemented.
C11_union_is_null_and_one_type ==
    (Translated /\ input.s = "Union") =>
       IF Len(input.u) = 2 /\ NullCount(input.u) = 1
       THEN LET r == make_data_type(OtherBranch(input.u), None, Resolver_default) IN
            /\ made.st = r.st
            /\ r.st = "Ok" =>
                  made.dt = [r.dt EXCEPT !.nullability =
                                Some(IF input.u[1] = Primitive("Null") THEN "NullFirst"
                                     ELSE "NullSecond")]
       ELSE made.st = "NotYetImplemented"

\* The named types a traversal has completed, as the schema language counts
\* them: a record is complete after its fields, under its own namespace or else
\* the inherited one; an enum or a fixed is complete where it stands, under the
\* inherited namespace.  A reference names <<simple name, namespace>>: the part
\* before its last dot, or else the inherited namespace.
NamespaceOf(ns) == IF ns = None THEN <<>> ELSE ns[1]

Named(name, ns) ==
    IF Len(name) > 1 THEN <<name[Len(name)], SubSeq(name, 1, Len(name) - 1)>>
    ELSE <<name[1], NamespaceOf(ns)>>

RECURSIVE Completes(_, _, _)
RECURSIVE CompletesAll(_, _, _, _)

\* [ok, done]: whether every reference of the schema names a type of done or
\* one completed before it, and the types completed after the schema
Completes(sch, ns, done) ==
    CASE sch.s = "Ref" -> [ok |-> Named(sch.name, ns) \in done, done |-> done]
      [] sch.s = "Record" ->
            LET own == IF sch.namespace = None THEN ns ELSE sch.namespace
                r == CompletesAll(sch.fields, 1, own, done)
            IN [ok |-> r.ok, done |-> r.done \cup {<<sch.name, NamespaceOf(own)>>}]
      [] sch.s \in {"Enum", "Fixed"} ->
            [ok |-> TRUE, done |-> done \cup {<<sch.name, NamespaceOf(ns)>>}]
      [] sch.s = "Array" -> Completes(sch.items, ns, done)
      [] sch.s = "Map" -> Completes(sch.values, ns, done)
      [] sch.s = "Union" -> Completes(OtherBranch(sch.u), ns, done)
      [] sch.s = "Type" -> Completes(sch.type, ns, done)
      [] OTHER -> [ok |-> TRUE, done |-> done]

CompletesAll(fs, i, ns, done) ==
    IF i > Len(fs) THEN [ok |-> TRUE, done |-> done]
    ELSE LET r == Completes(fs[i].type, ns, done) IN
         IF r.ok THEN CompletesAll(fs, i + 1, ns, r.done) ELSE [ok |-> FALSE, done |-> r.done]

\* the fields of the translated record that are a bare reference
RefFields ==
    IF input.s = "Record" THEN {i \in 1..Len(input.fields) : input.fields[i].type.s = "Ref"}
    ELSE {}

\* C12: a named reference resolves exactly when a record, enum or fixed type
\* of that <<simple name, namespace>> was completed earlier in traversal order,
\* and then to the node registered for it; otherwise translation fails with a
\* parse error.  The name of a record is not registered while its fields are
\* resolved: a field that refers to the enclosing record fails.
C12_reference_resolves_when_completed_before ==
    (Translated /\ input \in RefInputs) =>
       /\ made.st = "Ok" <=> Completes(input, None, {}).ok
       /\ made.st # "Ok" => made.st = "ParseError"
       /\ made.st = "Ok" =>
             \A i \in RefFields :
                <<Named(input.fields[i].type.name, input.namespace),
                  made.dt.codec.fields[i].data_type>> \in made.resolver
       /\ \A i \in RefFields :
             Named(input.fields[i].type.name, input.namespace)
                = <<input.name, NamespaceOf(input.namespace)>> => made.st = "ParseError"

\* a reference by its full name to an enum completed inside an earlier record of
\* another namespace was resolved
C12_witness ==
    /\ Translated
    /\ input = RootRecord(Some(<<"a">>), <<Inner(Some(<<"b">>), <<EnumE>>), Ref(<<"b", "E">>)>>)
    /\ made.st = "Ok"
    /\ made.dt.codec.fields[2].data_type.codec = Codec_Enum(<<"A", "B">>)

\* the field at hand was derived from the translated type and translated back
RoundTripped == Translated /\ made.st = "Ok" /\ IsSome(arrow) /\ IsSome(reversed)

\* the same variant, child variants, decimal precision and scale, and UTC flag
RECURSIVE SameShape(_, _)
SameShape(t, b) ==
    /\ t.codec.c = b.codec.c
    /\ CASE t.codec.c = "Record" ->
              /\ Len(t.codec.fields) = Len(b.codec.fields)
              /\ \A i \in 1..Len(t.codec.fields) :
                    SameShape(t.codec.fields[i].data_type, b.codec.fields[i].data_type)
         [] t.codec.c = "Array" -> SameShape(t.codec.item, b.codec.item)
         [] t.codec.c = "Map" -> SameShape(t.codec.value, b.codec.value)
         [] t.codec.c = "Decimal" ->
              /\ t.codec.precision = b.codec.precision
              /\ UnwrapOr(t.codec.scale, 0) = UnwrapOr(b.codec.scale, 0)
         [] t.codec.c \in TimestampKinds -> t.codec.is_utc = b.codec.is_utc
         [] OTHER -> TRUE

\* C13: a type node that forward translation produced, taken to its columnar
\* field and back by arrow_field_to_avro_field, comes back with the same
\* variant, the same child variants, the same decimal precision and scale and
\* the same timestamp UTC flag.
C13_forward_then_reverse_keeps_shape ==
    RoundTripped => SameShape(made.dt, Unwrap(reversed).data_type)

\* the fields of the translated record that are a Decimal
DecimalFields ==
    IF Translated /\ made.st = "Ok" /\ made.dt.codec.c = "Record"
    THEN {k \in 1..Len(made.dt.codec.fields) :
             made.dt.codec.fields[k].data_type.codec.c = "Decimal"}
    ELSE {}

\* the storage the rule gives Decimal(p, s, sz)
RuleWidth(c) ==
    IF (IsSome(c.size) /\ Unwrap(c.size) <= 16)
          \/ (c.size = None /\ c.precision <= DECIMAL128_MAX_PRECISION)
    THEN "Decimal128" ELSE "Decimal256"

\* C14: for every Decimal(p, s, sz) the schema type is 128 bits wide exactly
\* when sz is present and at most 16, or sz is absent and p is at most 38, and
\* 256 bits wide in every other case; when RecordDecoder::try_new accepts the
\* type, the builder it makes for the column has that same width.
C14_decimal_width_is_one_rule ==
    \A k \in DecimalFields :
       /\ Codec_data_type(made.dt.codec.fields[k].data_type.codec).t
             = RuleWidth(made.dt.codec.fields[k].data_type.codec)
       /\ (built.st = "Ok" /\ built.fields[k].k = "Decimal") =>
             /\ built.fields[k].builder.w = RuleWidth(made.dt.codec.fields[k].data_type.codec)
             /\ built.fields[k].builder.w = built.schema[k].data_type.t


(***************************************************************************)
(* Properties of the Duration column.                                      *)
(***************************************************************************)
DurationColumn == created /\ Len(fields) = 1 /\ fields[1].k = "Interval"

\* x is the month-day-nanosecond value of the 12 wire bytes raw, the
\* milliseconds read as an unsigned 32-bit integer
ReadsUnsigned(x, raw) ==
    /\ x.months = i32_from_le_bytes(SubSeq(raw, 1, 4))
    /\ x.days = i32_from_le_bytes(SubSeq(raw, 5, 8))
    /\ x.nanoseconds.times = "1_000_000"
    /\ x.nanoseconds.millis >= 0
    /\ x.nanoseconds.millis % 16777216 = raw[9] + 256 * raw[10] + 65536 * raw[11]
    /\ x.nanoseconds.millis \div 16777216 = raw[12]

\* C15: a decode of Duration rows consumes 12 bytes a row, and every value the
\* column holds is the reading of its 12 bytes as months, days and unsigned
\* milliseconds: the nanoseconds, milliseconds times 1,000,000, are never
\* negative, and months and days keep their 32-bit pattern.
C15_duration_millis_are_unsigned ==
    DurationColumn =>
       /\ (last.op = "decode" /\ last.st = "Ok") => last.n = 12 * last.count
       /\ \A j \in 1..Len(fields[1].values) :
             \E raw \in DurationVals : ReadsUnsigned(fields[1].values[j], raw)


(***************************************************************************)
(* Properties of the metadata of derived fields.                           *)
(***************************************************************************)
HasKey(md, k) == \E p \in md : p[1] = k

Without(md, k) == {p \in md : p[1] # k}

\* the JSON text of the defaults the schemas use
JsonText(v) == IF v = Num(42) THEN "42" ELSE IF v = Str("x") THEN "\"x\"" ELSE "?"

\* the record schemas whose translation was handed to RecordDecoder::try_new
\* and whose struct field was derived
BuiltRecord ==
    /\ input.s = "Record" /\ made.st = "Ok" /\ built.st = "Ok" /\ IsSome(arrow)
    /\ Unwrap(arrow).data_type.t = "Struct"

\* the derived field of the k-th field and the k-th field of
\* RecordDecoder::schema are one field, with the type node's other metadata
DefaultCarried(k) ==
    /\ Unwrap(arrow).data_type.fields[k] = built.schema[k]
    /\ IsSome(input.fields[k].default) =>
          <<"avro.default", JsonText(Unwrap(input.fields[k].default))>> \in built.schema[k].metadata
    /\ Without(built.schema[k].metadata, "avro.default")
          = Without(made.dt.codec.fields[k].data_type.metadata, "avro.default")

\* C16 as stated: the derived field of a named field has the metadata entry
\* avro.default, holding the JSON text of the default, if and only if the
\* field has a default; the type node's other metadata is carried unchanged
\* and RecordDecoder::schema shows the same field.
C16_default_entry_iff_default ==
    BuiltRecord =>
       \A k \in 1..Len(input.fields) :
          /\ DefaultCarried(k)
          /\ HasKey(built.schema[k].metadata, "avro.default") <=> IsSome(input.fields[k].default)

\* C16 amended: with a default the entry avro.default holds the JSON text of
\* the default; without one the field's metadata is the type node's metadata,
\* so the entry is there exactly when the type node's own attributes have it.
C16_default_entry_when_default ==
    BuiltRecord =>
       \A k \in 1..Len(input.fields) :
          /\ DefaultCarried(k)
          /\ input.fields[k].default = None =>
                built.schema[k].metadata = made.dt.codec.fields[k].data_type.metadata

C16_witness ==
    /\ BuiltRecord
    /\ input.fields[1].default = Some(Str("x"))
    /\ made.dt.codec.fields[1].data_type.metadata = {<<"doc", "\"d\"">>}
    /\ built.schema[1].metadata = {<<"doc", "\"d\"">>, <<"avro.default", "\"x\"">>}
    /\ built.schema[2].metadata = {}


(***************************************************************************)
(* Properties of the union branch index of a Nullable column.              *)
(***************************************************************************)
\* the Nullable builders in and under a builder
RECURSIVE NullableIn(_)
NullableIn(d) ==
    CASE d.k = "Nullable" -> {d} \cup NullableIn(d.child)
      [] d.k = "Record" -> UNION {NullableIn(d.children[i]) : i \in 1..Len(d.children)}
      [] d.k = "List" -> NullableIn(d.child)
      [] d.k = "Map" -> NullableIn(d.val_decoder)
      [] OTHER -> {}

NullableColumns == UNION {NullableIn(fields[k]) : k \in 1..Len(fields)}

\* branch indices other than 0 and 1
BadBranches == {-1, 2, 3}

\* decode of a buffer that starts with a bad branch index fails and returns
\* the builder as it was
BadBranchRejected(d) ==
    \A b \in BadBranches :
       /\ Decoder_decode(d, encode_avro_int(b) \o <<2, 2>>, 0).st = "Err"
       /\ Decoder_decode(d, encode_avro_int(b) \o <<2, 2>>, 0).d = d

\* C17: when a Nullable column, NullFirst or NullSecond, reads a union branch
\* index other than 0 and 1, decode returns an error and the column is as it
\* was: nothing is appended to its null mask and nothing is appended to or
\* decoded by its child.
C17_bad_branch_leaves_column ==
    [][ /\ (last'.op = "decode" /\ last'.bad # 0) =>
              /\ last'.st = "Err"
              /\ fields'[last'.bad] = fields[last'.bad]
        /\ \A d \in NullableColumns : BadBranchRejected(d) ]_vars

C17_witness ==
    /\ created /\ Len(fields) = 2
    /\ last.op = "decode" /\ last.st = "Err" /\ last.bad = 2
    /\ fields[2].k = "Nullable" /\ fields[2].nb = "NullSecond"
    /\ RowCount(fields[1]) = 1
    /\ RowCount(fields[2]) = 0 /\ RowCount(fields[2].child) = 0


(***************************************************************************)
(* Properties of decorated types.                                          *)
(***************************************************************************)
\* the node of a primitive type name
PrimitiveNode(p) ==
    [codec |-> [c |-> CASE p = "Int" -> "Int32" [] p = "Long" -> "Int64"
                        [] p = "String" -> "String" [] p = "Bytes" -> "Binary"],
     nullability |-> None, metadata |-> {}]

\* the decorated types of the schema translated, each with the node of its
\* underlying type and the node made of it: a decorated primitive at the top
\* or as a field of the top record, and a decorated reference to the fixed
\* that is the field before it
Decorated ==
    IF ~Translated \/ made.st # "Ok" THEN {}
    ELSE IF input.s = "Type" /\ input.type.s = "Primitive"
    THEN {[attributes |-> input.attributes, base |-> PrimitiveNode(input.type.p),
           node |-> made.dt]}
    ELSE IF input.s = "Record"
    THEN {[attributes |-> input.fields[k].type.attributes,
           base |-> IF input.fields[k].type.type.s = "Primitive"
                    THEN PrimitiveNode(input.fields[k].type.type.p)
                    ELSE made.dt.codec.fields[k - 1].data_type,
           node |-> made.dt.codec.fields[k].data_type] :
             k \in {i \in 1..Len(input.fields) :
                      /\ input.fields[i].type.s = "Type"
                      /\ \/ input.fields[i].type.type.s = "Primitive"
                         \/ /\ input.fields[i].type.type.s = "Ref"
                            /\ i > 1
                            /\ input.fields[i - 1].type.s = "Fixed"}}
    ELSE {}

\* a number attribute, or the value taken when it is absent or not a number
NumberAttribute(additional, key, absent) ==
    IF \E p \in additional : p[1] = key /\ p[2].j = "num"
    THEN (CHOOSE p \in additional : p[1] = key /\ p[2].j = "num")[2].n
    ELSE absent

\* the logical-type table: the variant a logical type gives the underlying
\* variant it requires, None for every other combination
LogicalTable(lt, u, additional) ==
    CASE lt = "decimal" /\ u.c = "Fixed" ->
            Some([c |-> "Decimal", precision |-> NumberAttribute(additional, "precision", 10),
                  scale |-> Some(NumberAttribute(additional, "scale", 0)),
                  size |-> Some(NumberAttribute(additional, "size", u.size))])
      [] lt = "decimal" /\ u.c = "Binary" ->
            Some([c |-> "Decimal", precision |-> NumberAttribute(additional, "precision", 10),
                  scale |-> Some(NumberAttribute(additional, "scale", 0)), size |-> None])
      [] lt = "uuid" /\ u.c = "String" -> Some([c |-> "Uuid"])
      [] lt = "date" /\ u.c = "Int32" -> Some([c |-> "Date32"])
      [] lt = "time-millis" /\ u.c = "Int32" -> Some([c |-> "TimeMillis"])
      [] lt = "time-micros" /\ u.c = "Int64" -> Some([c |-> "TimeMicros"])
      [] lt = "timestamp-millis" /\ u.c = "Int64" ->
            Some([c |-> "TimestampMillis", is_utc |-> TRUE])
      [] lt = "timestamp-micros" /\ u.c = "Int64" ->
            Some([c |-> "TimestampMicros", is_utc |-> TRUE])
      [] lt = "local-timestamp-millis" /\ u.c = "Int64" ->
            Some([c |-> "TimestampMillis", is_utc |-> FALSE])
      [] lt = "local-timestamp-micros" /\ u.c = "Int64" ->
            Some([c |-> "TimestampMicros", is_utc |-> FALSE])
      [] lt = "duration" /\ u.c = "Fixed" /\ u.size = 12 -> Some([c |-> "Duration"])
      [] OTHER -> None

\* the JSON text of an attribute value: a number in digits, a string quoted
AttributeText(v) == IF v.j = "str" THEN "\"" \o v.x \o "\"" ELSE ToString(v.n)

CopiedAttributes(additional) == {<<p[1], AttributeText(p[2])>> : p \in additional}

\* C18: a logical type on the underlying variant the table requires gives the
\* table's variant; every other combination keeps the underlying variant and
\* stores the string under the metadata key logicalType; in both cases every
\* additional attribute is copied, as its JSON text, into the metadata.
C18_logical_type_table ==
    \A x \in Decorated :
       /\ CopiedAttributes(x.attributes.additional) \subseteq x.node.metadata
       /\ x.attributes.logical_type = None =>
             /\ x.node.codec = x.base.codec
             /\ x.node.metadata = x.base.metadata \cup CopiedAttributes(x.attributes.additional)
       /\ IsSome(x.attributes.logical_type) =>
             IF IsSome(LogicalTable(Unwrap(x.attributes.logical_type), x.base.codec,
                                    x.attributes.additional))
             THEN /\ x.node.codec = Unwrap(LogicalTable(Unwrap(x.attributes.logical_type),
                                                        x.base.codec, x.attributes.additional))
                  /\ x.node.metadata
                       = x.base.metadata \cup CopiedAttributes(x.attributes.additional)
             ELSE /\ x.node.codec = x.base.codec
                  /\ x.node.metadata
                       = x.base.metadata \cup CopiedAttributes(x.attributes.additional)
                           \cup {<<"logicalType", Unwrap(x.attributes.logical_type)>>}

\* time-millis on a long: the variant stays Int64 and the string is stored
C18_witness ==
    /\ input = Schema_Type(Primitive("Long"),
                           Annotated("time-millis", {<<"doc", Str("d")>>, <<"precision", Num(5)>>}))
    /\ made.st = "Ok"
    /\ made.dt.codec = [c |-> "Int64"]
    /\ made.dt.metadata = {<<"logicalType", "time-millis">>, <<"doc", "\"d\"">>,
                           <<"precision", "5">>}


(***************************************************************************)
(* Properties of named fixed types.                                        *)
(***************************************************************************)
\* the variant of a named fixed: None when a decimal has no precision number
FixedVariant(fx) ==
    IF fx.attributes.logical_type # Some("decimal")
    THEN Some([c |-> "Fixed", size |-> fx.size])
    ELSE IF \E p \in fx.attributes.additional : p[1] = "precision" /\ p[2].j = "num"
    THEN Some([c |-> "Decimal",
               precision |-> NumberAttribute(fx.attributes.additional, "precision", 0),
               scale |-> Some(NumberAttribute(fx.attributes.additional, "scale", 0)),
               size |-> Some(fx.size)])
    ELSE None

\* a record whose first field declares a fixed and whose other fields refer
\* to it by its name
FixedFirst ==
    /\ input.s = "Record" /\ input.fields[1].type.s = "Fixed"
    /\ \A i \in 2..Len(input.fields) :
          \/ input.fields[i].type = Ref(<<input.fields[1].type.name>>)
          \/ /\ input.fields[i].type.s = "Type"
             /\ input.fields[i].type.type = Ref(<<input.fields[1].type.name>>)

\* C19: a named fixed with the logical type decimal and no precision fails
\* with a parse error and leaves the resolver without an entry; with a
\* precision it is Decimal(p, Some(s), Some(size)), s = 0 when scale is
\* absent; without the decimal logical type it is Fixed(size). A successful
\* result is registered under the name of the fixed, in the namespace in
\* force, where a later reference finds it.
C19_named_fixed ==
    /\ (Translated /\ input.s = "Fixed") =>
          IF FixedVariant(input) = None
          THEN made.st = "ParseError" /\ made.resolver = {}
          ELSE /\ made.st = "Ok"
               /\ made.dt.codec = Unwrap(FixedVariant(input))
               /\ made.dt.nullability = None
               /\ made.resolver = {<<(<<input.name, <<>>>>), made.dt>>}
    /\ (Translated /\ FixedFirst) =>
          IF FixedVariant(input.fields[1].type) = None
          THEN made.st = "ParseError" /\ made.resolver = {}
          ELSE /\ made.st = "Ok"
               /\ made.dt.codec.fields[1].data_type.codec
                     = Unwrap(FixedVariant(input.fields[1].type))
               /\ <<(<<input.fields[1].type.name, UnwrapOr(input.namespace, <<>>)>>),
                    made.dt.codec.fields[1].data_type>> \in made.resolver
               /\ (Len(input.fields) = 2 /\ input.fields[2].type.s = "Ref") =>
                     made.dt.codec.fields[2].data_type = made.dt.codec.fields[1].data_type

\* a decimal fixed without a scale, in the namespace a, referred to after it
C19_witness ==
    /\ Translated /\ FixedFirst /\ made.st = "Ok"
    /\ input.namespace = Some(<<"a">>)
    /\ input.fields[1].type.attributes = Annotated("decimal", {<<"precision", Num(10)>>})
    /\ made.dt.codec.fields[2].data_type.codec
          = [c |-> "Decimal", precision |-> 10, scale |-> Some(0), size |-> Some(17)]
    /\ \E e \in made.resolver : e[1] = <<"F", <<"a">>>>


(***************************************************************************)
(* Properties of the nullability reverse translation gives.                *)
(***************************************************************************)
\* node has NullFirst exactly where field is nullable: at the field itself, at
\* the children of a struct, at the item of a list and at the value of a map
RECURSIVE NullFirstWhereNullable(_, _)
NullFirstWhereNullable(field, node) ==
    /\ node.nullability = IF field.nullable THEN Some("NullFirst") ELSE None
    /\ CASE field.data_type.t = "Struct" ->
               /\ node.codec.c = "Record"
               /\ Len(node.codec.fields) = Len(field.data_type.fields)
               /\ \A i \in 1..Len(field.data_type.fields) :
                     NullFirstWhereNullable(field.data_type.fields[i],
                                            node.codec.fields[i].data_type)
         [] field.data_type.t = "List" ->
               /\ node.codec.c = "Array"
               /\ NullFirstWhereNullable(field.data_type.field, node.codec.item)
         [] field.data_type.t = "Map" /\ field.data_type.field.data_type.t = "Struct" ->
               /\ node.codec.c = "Map"
               /\ NullFirstWhereNullable(field.data_type.field.data_type.fields[2],
                                         node.codec.value)
         [] OTHER -> TRUE

\* C20: the node arrow_field_to_avro_field gives a columnar field has the
\* nullability NullFirst exactly when the field is nullable and none when it
\* is not, at the top level, for struct children, for list items and for map
\* values; NullSecond is never produced.
C20_reverse_nullability_is_null_first ==
    IsSome(reversed) => NullFirstWhereNullable(Unwrap(arrow), Unwrap(reversed).data_type)

\* a union written value first comes back null first
C20_witness ==
    /\ IsSome(reversed)
    /\ made.st = "Ok" /\ made.dt.nullability = Some("NullSecond")
    /\ Unwrap(arrow).nullable
    /\ Unwrap(reversed).data_type.nullability = Some("NullFirst")


(***************************************************************************)
(* Properties of the reverse translation of dictionaries.                  *)
(***************************************************************************)
\* C21: reverse translation gives a dictionary type the variant Enum, with no
\* symbols, exactly when the value type of the dictionary is Utf8, whatever
\* its key type, and the variant String for every other dictionary.
C21_dictionary_of_utf8_values_is_enum ==
    (IsSome(reversed) /\ Unwrap(arrow).data_type.t = "Dictionary") =>
       Unwrap(reversed).data_type.codec
          = IF Unwrap(arrow).data_type.value = DT("Utf8")
            THEN Codec_Enum(<<>>) ELSE Prim("String")


(***************************************************************************)
(* Properties of RecordDecoder::schema.                                    *)
(***************************************************************************)
\* C22: the schema RecordDecoder::schema returns is the one made by try_new:
\* no decode and no flush, whether it succeeds or fails, changes it, and every
\* batch a flush returns has exactly that schema.
C22_schema_is_fixed_at_try_new ==
    [][ /\ schema' = schema
        /\ schema' = RecordDecoder_try_new(data_type).schema
        /\ (last'.op = "flush" /\ batch'.st = "Ok") => batch'.schema = schema ]_vars

\* a batch returned after a decode call failed
C22_witness ==
    /\ created /\ Len(schema) = 2
    /\ last.op = "flush" /\ batch.st = "Ok" /\ ~last.clean
    /\ batch.columns[1].len >= 1
    /\ batch.schema = schema


(***************************************************************************)
(* Properties of the blocks of a map row.                                  *)
(***************************************************************************)
MapColumn == created /\ Len(fields) = 1 /\ fields[1].k = "Map"

\* the bytes of the entries of a map row: each a key with its length and an
\* int value
RECURSIVE EntryBytes(_)
EntryBytes(entries) ==
    IF entries = <<>> THEN <<>>
    ELSE encode_avro_bytes(entries[1][1]) \o encode_avro_int(Unwrap(entries[1][2]))
           \o EntryBytes(Tail(entries))

RECURSIVE KeyBytes(_)
KeyBytes(entries) == IF entries = <<>> THEN <<>> ELSE entries[1][1] \o KeyBytes(Tail(entries))

\* a decode of one map row with the entries given: the entry count, the keys
\* and the values grow by those entries, and the bytes consumed are the block
\* count and the entries, nothing more
OneMapRow(before, after, entries, consumed) ==
    /\ after.entry_count = before.entry_count + Len(entries)
    /\ Len(after.key_off) = Len(before.key_off) + Len(entries)
    /\ after.key_data = before.key_data \o KeyBytes(entries)
    /\ after.val_decoder.values
          = before.val_decoder.values \o [i \in 1..Len(entries) |-> Unwrap(entries[i][2])]
    /\ consumed = 1 + Len(EntryBytes(entries))

\* block counts of zero and below with bytes after them, on the builder d:
\* no entry is added and only the count is consumed
NoEntriesRead(d) ==
    \A buf \in {<<0, 2, 97, 1>>, <<1, 6, 2, 97, 1>>, <<3, 2, 2, 97>>} :
       /\ read_map_blocks(d, buf, 0) = [st |-> "Ok", d |-> d, pos |-> 1, n |-> 0]
       /\ Decoder_decode(d, buf, 0).pos = 1
       /\ Decoder_decode(d, buf, 0).d.entry_count = d.entry_count
       /\ Decoder_decode(d, buf, 0).d.key_data = d.key_data

\* a block of two entries followed by a zero count: the zero is not consumed
TwoEntriesRead(d) ==
    \E r \in {read_map_blocks(d, <<4, 2, 97, 1, 2, 98, 200, 1, 0, 0>>, 0)} :
       /\ r.st = "Ok" /\ r.n = 2 /\ r.pos = 8
       /\ r.d.key_data = d.key_data \o <<97, 98>>
       /\ r.d.val_decoder.values = d.val_decoder.values \o <<-1, 100>>

RECURSIVE BuildersIn(_)
BuildersIn(d) ==
    {d} \cup
    CASE d.k = "Nullable" -> BuildersIn(d.child)
      [] d.k = "Record" -> UNION {BuildersIn(d.children[i]) : i \in 1..Len(d.children)}
      [] d.k = "List" -> BuildersIn(d.child)
      [] d.k = "Map" -> BuildersIn(d.val_decoder)
      [] OTHER -> {}

\* the rows of a builder, a record holding those of each of its children
RowsAre(d, n) ==
    IF d.k = "Record" THEN \A i \in 1..Len(d.children) : RowCount(d.children[i]) = n
    ELSE RowCount(d) = n

\* C24: append_null adds exactly one row to every builder Decoder::try_new
\* makes, a Nullable builder under a nullable Record included; so as long as
\* every decode call has succeeded, each child of a nullable Record is as long
\* as the null mask of the record.
C24_append_null_adds_one_row ==
    (created /\ ~soiled) =>
       /\ \A k \in 1..Len(fields) : \A d \in BuildersIn(fields[k]) :
             d.k # "Record" => RowCount(append_null(d)) = RowCount(d) + 1
       /\ \A k \in 1..Len(fields) :
             (fields[k].k = "Nullable" /\ fields[k].child.k = "Record") =>
                RowsAre(fields[k].child, Len(fields[k].nulls))


(***************************************************************************)
(* Properties of a nullable Array column.                                  *)
(***************************************************************************)
NullableArrayColumn ==
    created /\ Len(fields) = 1 /\ fields[1].k = "Nullable" /\ fields[1].child.k = "List"

\* C25: in a nullable Array column, whatever the order of the present and the
\* null rows decoded, the item builder is as long as the last offset of the
\* array, the sum of the row lengths pushed; so the flushed list holds for
\* every present row the items decoded for it, null rows before it or not.
C25_items_are_as_long_as_last_offset ==
    NullableArrayColumn =>
       /\ ~soiled => RowCount(fields[1].child.child) = last_offset(fields[1].child.off)
       /\ (Flushed /\ last.clean) =>
             /\ batch.columns[1].len = Len(rowsOk)
             /\ \A j \in 1..Len(rowsOk) : ArrRow(batch.columns[1], j) = rowsOk[j][1]


(***************************************************************************)
(* Properties of the keys and values of a Map column.                      *)
(***************************************************************************)
\* the Map builder of a column that is a map or a nullable map
MapBuilderOf(fs) ==
    IF ~created \/ Len(fs) # 1 THEN {}
    ELSE IF fs[1].k = "Map" THEN {fs[1]}
    ELSE IF fs[1].k = "Nullable" /\ fs[1].child.k = "Map" THEN {fs[1].child}
    ELSE {}

\* the keys of a decoded row of the column, in wire order: a null row has none
KeysOfRow(row) == IF IsSome(row[1]) THEN KeyBytes(Unwrap(row[1])) ELSE <<>>

\* C26: in a Map column, null rows of a nullable map included, the number of
\* keys the key offsets record is the length of the value builder and the
\* running entry count, and the keys are held in wire order; so the key and
\* the value column of the entries struct made at flush are equally long.
C26_keys_values_and_count_agree ==
    [][ (last'.op = "decode" /\ ~soiled') =>
           \A m \in MapBuilderOf(fields') :
              /\ Len(m.key_off) - 1 = RowCount(m.val_decoder)
              /\ Len(m.key_off) - 1 = m.entry_count
              /\ last'.count = 1 =>
                    \A b \in MapBuilderOf(fields) :
                       m.key_data = b.key_data \o KeysOfRow(rowsOk'[Len(rowsOk')]) ]_vars


(***************************************************************************)
(* Properties of the flush of a nullable Record column.                    *)
(***************************************************************************)
NullableRecordColumn ==
    created /\ Len(fields) = 1 /\ fields[1].k = "Nullable" /\ fields[1].child.k = "Record"

\* C27: the flush of a nullable Record gives the null mask of the record to
\* every child column, a child that is itself Nullable included: at every row
\* where the record is null each child column is invalid.
C27_record_mask_reaches_every_child ==
    (NullableRecordColumn /\ last.op = "flush" /\ last.clean) =>
       /\ batch.st = "Ok"
       /\ \A i \in 1..Len(rowsOk) :
             rowsOk[i][1] = None =>
                \A c \in 1..Len(batch.columns[1].children) :
                   ~is_valid(batch.columns[1].children[c], i)

(***************************************************************************)
(* Column types of a flush against the schema of the decoder               *)
(***************************************************************************)
\* C28: after successful decodes the array which a column's builder flushes
\* has exactly the data type which schema() announces for that column, so
\* that the batch is never refused for a column of another type.
C28_flushed_type_is_schema_type ==
    (created /\ last.op = "decode" /\ last.st = "Ok" /\ last.clean) =>
       \A k \in 1..Len(fields) :
          \E r \in {Decoder_flush(fields[k], None)} :
             r.st = "Ok" => r.arr.data_type = schema[k].data_type

(***************************************************************************)
(* Enum indices outside the declared symbols                               *)
(***************************************************************************)
EnumColumn == created /\ Len(fields) = 1 /\ fields[1].k = "Enum"

OutOfRange(d) ==
    \E i \in 1..Len(d.indices) : d.indices[i] < 0 \/ d.indices[i] >= Len(d.symbols)

\* the indices of the rows of the call just made
IndicesRead == [i \in 1..last'.count |-> Unwrap(rowsOk'[Len(rowsOk') - last'.count + i][1])]

\* C29: decoding an Enum row accepts every index, negative or beyond the
\* declared symbols, without error, and the index takes a row of the builder;
\* the builder's flush fails exactly when it holds such an index, so the index
\* is reported by the next flush and not before.
C29_any_index_is_a_row_until_flush ==
    [][ EnumColumn =>
          /\ (last'.op = "decode" /\ last'.clean) =>
                /\ last'.st = "Ok"
                /\ fields'[1].indices = fields[1].indices \o IndicesRead
          /\ OutOfRange(fields[1]) <=> Decoder_flush(fields[1], None).st = "Err"
          /\ (last'.op = "flush" /\ OutOfRange(fields[1])) => batch'.st = "Err" ]_vars

C29_witness ==
    /\ EnumColumn
    /\ last.op = "flush"
    /\ last.clean
    /\ batch.st = "Err"
    /\ fields[1].indices = <<-1, 2>>

(***************************************************************************)
(* The end of a map value on the wire                                      *)
(***************************************************************************)
\* C30: read_map_blocks reads a map block by block up to the block count 0:
\* when a call that decodes one row of a map column returns Ok, the bytes of
\* the whole map value, its terminating zero count included, are consumed, and
\* the entries counted are those of all blocks of the value.
C30_map_is_read_to_its_end ==
    [][ (MapColumn /\ last'.op = "decode" /\ last'.st = "Ok" /\ last'.clean
           /\ last'.count = 1) =>
          /\ last'.n = last'.len
          /\ fields'[1].entry_count
               = fields[1].entry_count + Len(Unwrap(rowsOk'[Len(rowsOk')][1])) ]_vars

(***************************************************************************)
(* A flush after a decode that failed inside a row                         *)
(***************************************************************************)
\* the rows a top-level builder holds in full: a Nullable builder holds a row
\* when both its mask and its child do
CompleteRows(d) ==
    IF d.k = "Nullable"
    THEN (IF Len(d.nulls) < RowCount(d.child) THEN Len(d.nulls) ELSE RowCount(d.child))
    ELSE RowCount(d)

\* a failed decode left some column a row longer than another
Uneven ==
    /\ created
    /\ soiled
    /\ \E j, k \in 1..Len(fields) : CompleteRows(fields[j]) # CompleteRows(fields[k])

\* C31: when a decode failed inside a row and left top-level columns of
\* different lengths, the flush that follows returns an error, no batch, and
\* leaves every top-level builder as try_new made it.
C31_uneven_columns_flush_to_an_error ==
    [][ (Uneven /\ last'.op = "flush") => (batch'.st = "Err" /\ fields' = Fresh) ]_vars

(***************************************************************************)
(* A decimal of more bytes than its storage                                *)
(***************************************************************************)
\* the decimal builder of a column, under its Nullable layer if it has one
DecimalOf(d) == IF d.k = "Nullable" THEN d.child ELSE d

\* C32: when the first row of a call holds a bytes-encoded decimal of more
\* bytes than the column's storage (16 or 32), decode returns an error, it
\* does not abort, and the decimal builder holds the values it held before.
C32_wide_decimal_is_a_parse_error ==
    [][ (last'.op = "decode" /\ last'.wide # 0) =>
          /\ last'.st = "Err"
          /\ DecimalOf(fields'[last'.wide]).builder = DecimalOf(fields[last'.wide]).builder
      ]_vars

(***************************************************************************)
(* Nullability and the name resolver                                       *)
(***************************************************************************)
\* C33: every node stored in the resolver has nullability none; a null-union
\* around a named type or around a reference marks only the node returned for
\* that use, so a plain reference resolves to a node of nullability none
\* however the name was wrapped before.
C33_resolver_nodes_are_not_nullable ==
    Translated =>
       /\ \A e \in made.resolver : e[2].nullability = None
       /\ made.st = "Ok" =>
             \A i \in RefFields : made.dt.codec.fields[i].data_type.nullability = None

\* a fixed was declared inside a null-union, referred to inside another and
\* then referred to plainly
C33_witness ==
    /\ Translated
    /\ input \in WrappedInputs
    /\ input.fields[1].type.u[2] = FixedF
    /\ made.st = "Ok"
    /\ made.dt.codec.fields[1].data_type.nullability = Some("NullFirst")
    /\ made.dt.codec.fields[2].data_type.nullability = Some("NullSecond")
    /\ made.dt.codec.fields[3].data_type.nullability = None
    /\ made.dt.codec.fields[3].data_type.codec = made.dt.codec.fields[1].data_type.codec

(***************************************************************************)
(* Fixed and Uuid columns                                                  *)
(***************************************************************************)
\* the builder of a column under its Nullable layer, if it has one
FixedOf(d) == IF d.k = "Nullable" THEN d.child ELSE d

FixedCols == {k \in 1..Len(fields) : FixedOf(fields[k]).k = "Fixed"}

\* the bytes the rows decoded since the last flush put into column k: those
\* read for a row, zeros for a null row
FixedBytes_of(k) ==
    Concat([i \in 1..Len(rowsOk) |->
               IF IsSome(rowsOk[i][k]) THEN Unwrap(rowsOk[i][k])
               ELSE Repeat(0, FixedOf(fields[k]).fsize)])

\* C34: a Fixed(n) builder, and that of a Uuid with n = 16, takes exactly n
\* wire bytes for a row and n zero bytes for a null row: its buffer is always
\* a whole number of rows, after successful decodes it is the bytes of the
\* rows in order, and flushed row i is the n bytes read for row i.
C34_fixed_rows_are_n_bytes ==
    created =>
       \A k \in FixedCols :
          /\ Len(FixedOf(fields[k]).buf) % FixedOf(fields[k]).fsize = 0
          /\ (last.op = "decode" /\ ~soiled) => FixedOf(fields[k]).buf = FixedBytes_of(k)
          /\ (last.op = "decode" /\ last.st = "Ok" /\ Len(fields) = 1 /\ fields[1].k = "Fixed") =>
                last.n = fields[1].fsize * last.count
          /\ CleanFlushed =>
                /\ batch.columns[k].len = Len(rowsOk)
                /\ \A i \in 1..Len(rowsOk) : ArrRow(batch.columns[k], i) = rowsOk[i][k]

\* a null row and a row of two bytes of a nullable Fixed(2) column were flushed
C34_witness ==
    /\ CleanFlushed
    /\ \E k \in FixedCols :
          /\ batch.columns[k].values = <<0, 0, 17, 18>>
          /\ batch.columns[k].nulls = Some(<<FALSE, TRUE>>)

\* two rows of a Uuid column were decoded
C34_witness_uuid ==
    /\ Len(fields) = 1 /\ fields[1].k = "Fixed" /\ fields[1].fsize = 16
    /\ last.op = "decode" /\ last.st = "Ok" /\ last.n = 32

(***************************************************************************)
(* The keys of the name resolver                                           *)
(***************************************************************************)
\* the key a record is registered under, given the namespace it inherits
RecordKey(r, ns) == <<r.name, NamespaceOf(IF r.namespace = None THEN ns ELSE r.namespace)>>

\* the namespace the fields of the translated record inherit
OwnNamespace == input.namespace

\* C35: a reference is looked up under <<its part after the last dot, its part
\* before it>>, whatever namespace is inherited, and an undotted one under
\* <<the name, the inherited namespace or the empty one>>; a record is
\* registered under <<its name, its declared namespace or else the inherited
\* one>> and its fields inherit that namespace; a second registration under a
\* key replaces the first.
C35_resolver_keys ==
    (Translated /\ input.s = "Record") =>
       /\ \A e1, e2 \in made.resolver : e1[1] = e2[1] => e1 = e2
       /\ input \in TwiceInputs => (made.st = "Ok" <=> Completes(input, None, {}).ok)
       /\ made.st = "Ok" =>
             /\ <<RecordKey(input, None), made.dt>> \in made.resolver
             /\ \A i \in 1..Len(input.fields) :
                   /\ input.fields[i].type.s = "Ref" =>
                         <<Named(input.fields[i].type.name, OwnNamespace),
                           made.dt.codec.fields[i].data_type>> \in made.resolver
                   /\ input.fields[i].type.s = "Record" =>
                         <<RecordKey(input.fields[i].type, OwnNamespace),
                           made.dt.codec.fields[i].data_type>> \in made.resolver
             /\ input \in TwiceInputs =>
                   /\ made.dt.codec.fields[3].data_type = made.dt.codec.fields[2].data_type
                   /\ made.dt.codec.fields[3].data_type # made.dt.codec.fields[1].data_type

\* under the namespace a.b the reference a.b.F resolved to the second of two
\* fixed types named F
C35_witness ==
    /\ Translated
    /\ input \in TwiceInputs
    /\ input.namespace = Some(<<"a", "b">>)
    /\ input.fields[3].type = Ref(<<"a", "b", "F">>)
    /\ made.st = "Ok"
    /\ made.dt.codec.fields[3].data_type.codec = Codec_Fixed(8)
    /\ <<(<<"R", <<"a", "b">>>>), made.dt>> \in made.resolver

====
